---- MODULE Spec2Model ----
(***************************************************************************)
(* A model of the void orchestrator: specification validation, the IPC    *)
(* fabric (PipePair / SocketPair), Spawner::spawn with its trigger        *)
(* workers, and VoidBuilder's file-descriptor voiding.                     *)
(*                                                                         *)
(* Twelve specifications share the variables:                              *)
(*   Spec        run(): validate, create the fabric, spawn, voids          *)
(*   FabricSpec  arbitrary call sequences on a PipePair and a SocketPair   *)
(*   VoidSpec    VoidBuilder::void_file_descriptors, step by step          *)
(*   ChildSpec   the child branch of VoidBuilder::spawn, step by step      *)
(*   FailSpec    Spec, where a call of Spawner::spawn may also fail        *)
(*   ReapSpec    run() after Spawner::spawn: daemon return, reap loop      *)
(*   TerminationSpec  run() with its reap loop, under fair scheduling      *)
(*   ArgsSpec    the two phases of argument preparation of one void        *)
(*   BuilderSpec the VoidBuilder of one void: environment, mounts, names   *)
(*   MountSpec   VoidBuilder::void_mount_namespace, call by call           *)
(*   RpcSpec     the RpcHandler's permission check of socket requests      *)
(*   SupervisorSpec  fork_for_trigger: a supervisor and its worker         *)
(***************************************************************************)
EXTENDS Integers, Sequences, FiniteSets, TLC

VARIABLES
    spec,            \* Specification.entrypoints, in HashMap iteration order
    pc,              \* position of run(): "start" "spawn" "spawned" "done"
    result,          \* what run() returned (or the last fabric call returned)
    next_entry,      \* index of the next entrypoint Spawner::spawn handles
    spawner_pipes,   \* Spawner.pipes   : name -> PipePair
    spawner_sockets, \* Spawner.sockets : name -> SocketPair
    fds,             \* fd table of the orchestrator: fd -> open file
    procs,           \* the processes cloned or forked so far
    chan,            \* records written to each pipe / datagrams sent to each socket
    calls,           \* FabricSpec: number of successful calls per endpoint
    vkeep,           \* VoidSpec: VoidBuilder.fds (keep_fds)
    vfds,            \* VoidSpec: fd table of the cloned child
    vinherited,      \* VoidSpec: fd table the child inherited at clone3
    vnull,           \* VoidSpec: the fd held by `nullfd` (-1: None)
    vpc,             \* VoidSpec: position inside void_file_descriptors
    child,           \* ChildSpec: the process clone3 returned 0 in
    daemon,          \* ReapSpec: RunArgs.daemon
    children,        \* ReapSpec: the orchestrator's children, pid -> state
    exit_code,       \* ReapSpec: the local `exit_code` of run
    reaped,          \* ReapSpec: the statuses waitid returned, in order
    prep,            \* ArgsSpec: the preparing process and the void it clones
    builder,         \* BuilderSpec: the loaded environment, the builder, its void
    mnt,             \* MountSpec: the child inside void_mount_namespace
    rpc,             \* RpcSpec: the RpcHandler, the request it is handling
    sup              \* SupervisorSpec: a supervisor void and its forked worker

vars == <<spec, pc, result, next_entry, spawner_pipes, spawner_sockets, fds,
          procs, chan, calls, vkeep, vfds, vinherited, vnull, vpc,
          child, daemon, children, exit_code, reaped, prep, builder,
          mnt, rpc, sup>>

(***************************************************************************)
(* Bounds                                                                  *)
(***************************************************************************)
\* total number of args over all entrypoints of a specification
MaxArgs == 2
\* records written to one pipe, datagrams sent to one socket
MaxRecords == 2
\* SocketPair::write calls in FabricSpec
MaxDups == 2
\* highest descriptor number open in the cloning process (VoidSpec)
MaxFd == 4
\* children of the orchestrator (ReapSpec)
MaxChildren == 2

\* spawner/mod.rs
MAX_FILE_DESCRIPTORS == 16
BUFFER_SIZE == 1024

EntrypointNames == {"a", "b"}
ChannelNames == {"x", "y"}

Range(s) == {s[i] : i \in 1..Len(s)}

Min(a, b) == IF a < b THEN a ELSE b

(***************************************************************************)
(* specification.rs: the data model                                        *)
(***************************************************************************)
Trigger ==
    {[type |-> "Startup", name |-> ""]}
    \cup [type : {"Pipe", "FileSocket"}, name : ChannelNames]

Arg ==
    [type : {"BinaryName", "Trigger", "File"}, end : {""}, name : {""}]
    \cup [type : {"Pipe", "FileSocket"}, end : {"Rx", "Tx"}, name : ChannelNames]

ArgTrigger == [type |-> "Trigger", end |-> "", name |-> ""]

\* every kind of Arg that spawner/args.rs prepares
AnyArg == Arg \cup [type : {"Entrypoint", "Trailing", "TcpListener"}, end : {""}, name : {""}]

Entrypoint(name, trigger, args) == [name |-> name, trigger |-> trigger, args |-> args]

\* s is a Specification: its entrypoints map as the sequence HashMap
\* iteration yields, every name once and in either order, with at most
\* MaxArgs args in all
IsSpecification(s) ==
    \E o \in {<<"a", "b">>, <<"b", "a">>},
       k \in {c \in (0..MaxArgs) \X (0..MaxArgs) : c[1] + c[2] <= MaxArgs} :
        \E t1 \in Trigger, t2 \in Trigger, a1 \in [1..k[1] -> Arg], a2 \in [1..k[2] -> Arg] :
            s = <<Entrypoint(o[1], t1, a1), Entrypoint(o[2], t2, a2)>>

(***************************************************************************)
(* Specification::pipes / Specification::sockets                           *)
(***************************************************************************)
RECURSIVE ArgRefs(_, _, _)
ArgRefs(args, type, end) ==
    IF args = <<>> THEN <<>>
    ELSE (IF Head(args).type = type /\ Head(args).end = end
          THEN <<Head(args).name>> ELSE <<>>) \o ArgRefs(Tail(args), type, end)

\* the names one entrypoint pushes onto `read`: its trigger, then its Rx args
EntryReads(e, type) ==
    (IF e.trigger.type = type THEN <<e.trigger.name>> ELSE <<>>)
        \o ArgRefs(e.args, type, "Rx")

RECURSIVE Reads(_, _)
Reads(s, type) ==
    IF s = <<>> THEN <<>> ELSE EntryReads(Head(s), type) \o Reads(Tail(s), type)

RECURSIVE Writes(_, _)
Writes(s, type) ==
    IF s = <<>> THEN <<>> ELSE ArgRefs(Head(s).args, type, "Tx") \o Writes(Tail(s), type)

pipes(s) == [read |-> Reads(s, "Pipe"), write |-> Writes(s, "Pipe")]

sockets(s) == [read |-> Reads(s, "FileSocket"), write |-> Writes(s, "FileSocket")]

(***************************************************************************)
(* error.rs and Specification::validate                                    *)
(***************************************************************************)
Ok == [kind |-> "Ok", name |-> ""]
BadPipe(n) == [kind |-> "BadPipe", name |-> n]
BadFileSocket(n) == [kind |-> "BadFileSocket", name |-> n]
BadTriggerArgument == [kind |-> "BadTriggerArgument", name |-> ""]

\* HashSet::insert returned false for seq[i]
IsDup(seq, i) == \E j \in 1..(i - 1) : seq[j] = seq[i]
HasDup(seq) == \E i \in 1..Len(seq) : IsDup(seq, i)
FirstDup(seq) ==
    seq[CHOOSE i \in 1..Len(seq) : IsDup(seq, i) /\ \A j \in 1..(i - 1) : ~IsDup(seq, j)]

validate_pipes_dup_writers(s) ==
    LET read == pipes(s).read
        write == pipes(s).write
    IN  IF HasDup(read) THEN {BadPipe(FirstDup(read))}
        ELSE IF Range(read) \ Range(write) # {}
             THEN {BadPipe(p) : p \in Range(read) \ Range(write)}
        ELSE {BadPipe(p) : p \in Range(write) \ Range(read)}

\* the pipe checks: the errors they can return ({} when they pass); a loop
\* over a HashSet may meet any of its offending members first
validate_pipes(s) ==
    LET read == pipes(s).read
        write == pipes(s).write
    IN  IF HasDup(read) THEN {BadPipe(FirstDup(read))}
        ELSE IF HasDup(write) THEN {BadPipe(FirstDup(write))}
        ELSE IF Range(read) \ Range(write) # {}
             THEN {BadPipe(p) : p \in Range(read) \ Range(write)}
        ELSE {BadPipe(p) : p \in Range(write) \ Range(read)}

validate_sockets_dup_readers(s) ==
    LET read == sockets(s).read
        write == sockets(s).write
    IN  IF Range(read) \ Range(write) # {}
        THEN {BadFileSocket(p) : p \in Range(read) \ Range(write)}
        ELSE {BadFileSocket(p) : p \in Range(write) \ Range(read)}

\* the socket checks: repeated writers are collected into a set
validate_sockets(s) ==
    LET read == sockets(s).read
        write == sockets(s).write
    IN  IF HasDup(read) THEN {BadFileSocket(FirstDup(read))}
        ELSE IF Range(read) \ Range(write) # {}
             THEN {BadFileSocket(p) : p \in Range(read) \ Range(write)}
        ELSE {BadFileSocket(p) : p \in Range(write) \ Range(read)}

validate_trigger_sockets_only(e) == e.trigger.type = "FileSocket"

validate_trigger_ok(e) == e.trigger.type \in {"Pipe", "FileSocket"}

validate_triggers(s) ==
    IF \E i \in DOMAIN s : ArgTrigger \in Range(s[i].args) /\ ~validate_trigger_ok(s[i])
    THEN {BadTriggerArgument} ELSE {}

\* every value validate can return for s
validate(s) ==
    IF validate_pipes(s) # {} THEN validate_pipes(s)
    ELSE IF validate_sockets(s) # {} THEN validate_sockets(s)
    ELSE IF validate_triggers(s) # {} THEN validate_triggers(s)
    ELSE {Ok}

(***************************************************************************)
(* File descriptors.  An fd table maps each open descriptor number to the  *)
(* open file it refers to and its FD_CLOEXEC flag.                         *)
(***************************************************************************)
None == -1

File(kind, name, end) == [kind |-> kind, name |-> name, end |-> end]
StdFile(fd) == File("std", IF fd = 0 THEN "stdin" ELSE IF fd = 1 THEN "stdout" ELSE "stderr", "")
DevNull == File("null", "", "")

Entry(obj, cloexec) == [obj |-> obj, cloexec |-> cloexec]

NoFds == [f \in {} |-> Entry(DevNull, FALSE)]

StdFds == [f \in {0, 1, 2} |-> Entry(StdFile(f), FALSE)]

Restrict(t, S) == [f \in (DOMAIN t) \cap S |-> t[f]]

\* the kernel hands out the lowest descriptor number that is not open
LowestFree(t) ==
    CHOOSE n \in 0..Cardinality(DOMAIN t) :
        n \notin DOMAIN t /\ \A m \in 0..(n - 1) : m \in DOMAIN t

OpenFd(t, obj, cloexec) == (LowestFree(t) :> Entry(obj, cloexec)) @@ t

CloseFd(t, fd) == Restrict(t, (DOMAIN t) \ {fd})

CloseFds(t, S) == Restrict(t, (DOMAIN t) \ S)

\* dup2(old, new): nothing when old = new, else new refers to old's file
\* with FD_CLOEXEC clear
Dup2(t, old, new) ==
    IF old = new THEN t ELSE (new :> Entry(t[old].obj, FALSE)) @@ t

(***************************************************************************)
(* VoidBuilder::void_file_descriptors, as the steps VoidSpec takes         *)
(***************************************************************************)
\* closer.keep_fds(&keep); closer.closefrom(3)
closefrom_noop(t, keep) == t

closefrom(t, keep) == Restrict(t, {0, 1, 2} \cup keep)

\* whether the loop over [0, 1, 2] overwrites stdfd
void_stdfd_always(stdfd, keep) == TRUE

void_stdfd(stdfd, keep) == stdfd \notin keep

\* one iteration of the loop over [0, 1, 2]; st = [fds, nullfd]
void_std_step(st, stdfd, keep) ==
    IF void_stdfd(stdfd, keep)
    THEN LET opened == IF st.nullfd = None
                       THEN OpenFd(st.fds, DevNull, TRUE) ELSE st.fds
             fd == IF st.nullfd = None THEN LowestFree(st.fds) ELSE st.nullfd
         IN  [fds |-> Dup2(opened, fd, stdfd), nullfd |-> fd]
    ELSE st

\* the end of the block drops `nullfd`, closing the descriptor it holds
drop_nullfd_leaks(st) == [fds |-> st.fds, nullfd |-> None]

drop_nullfd(st) ==
    [fds |-> IF st.nullfd = None THEN st.fds ELSE CloseFd(st.fds, st.nullfd),
     nullfd |-> None]

\* fcntl(fd, F_GETFD) fails with EBADF on a descriptor that is not open
cloexec_loop_ok(t, keep) == keep \subseteq DOMAIN t

clear_cloexec_skips(t, keep) == t

clear_cloexec(t, keep) ==
    [f \in DOMAIN t |-> IF f \in keep THEN Entry(t[f].obj, FALSE) ELSE t[f]]

\* the whole function: [ok, fds]
void_file_descriptors(t, keep) ==
    CHOOSE r \in
        {IF cloexec_loop_ok(s4.fds, keep)
         THEN [ok |-> TRUE, fds |-> clear_cloexec(s4.fds, keep)]
         ELSE [ok |-> FALSE, fds |-> s4.fds] :
            s4 \in {drop_nullfd(s3) :
            s3 \in {void_std_step(s2, 2, keep) :
            s2 \in {void_std_step(s1, 1, keep) :
            s1 \in {void_std_step(s0, 0, keep) :
            s0 \in {[fds |-> closefrom(t, keep), nullfd |-> None]}}}}}} : TRUE

(***************************************************************************)
(* lib.rs: PipePair, SocketPair, create_pipes, create_sockets              *)
(***************************************************************************)
\* Ok(File) holding descriptor fd
OkFile(fd) == [kind |-> "File", name |-> "", fd |-> fd]

NoPairs == [n \in {} |-> [name |-> "", read |-> None, write |-> None]]

\* pipe2(O_DIRECT): two new descriptors, FD_CLOEXEC clear
PipePair_new(name, t) ==
    LET r == LowestFree(t)
        t1 == OpenFd(t, File("pipe", name, "read"), FALSE)
        w == LowestFree(t1)
        t2 == OpenFd(t1, File("pipe", name, "write"), FALSE)
    IN  [pair |-> [name |-> name, read |-> r, write |-> w], fds |-> t2]

\* socketpair(AF_UNIX, SOCK_DGRAM, SockFlag::empty())
SocketPair_new(name, t) ==
    LET r == LowestFree(t)
        t1 == OpenFd(t, File("socket", name, "read"), FALSE)
        w == LowestFree(t1)
        t2 == OpenFd(t1, File("socket", name, "write"), FALSE)
    IN  [pair |-> [name |-> name, read |-> r, write |-> w], fds |-> t2]

\* Option::take on the read end: [ret, pair]
PipePair_take_read_keeps(pair) ==
    [ret |-> IF pair.read = None THEN BadPipe(pair.name) ELSE OkFile(pair.read),
     pair |-> pair]

PipePair_take_read(pair) ==
    IF pair.read = None
    THEN [ret |-> BadPipe(pair.name), pair |-> pair]
    ELSE [ret |-> OkFile(pair.read), pair |-> [pair EXCEPT !.read = None]]

PipePair_take_write(pair) ==
    IF pair.write = None
    THEN [ret |-> BadPipe(pair.name), pair |-> pair]
    ELSE [ret |-> OkFile(pair.write), pair |-> [pair EXCEPT !.write = None]]

SocketPair_take_read(pair) ==
    IF pair.read = None
    THEN [ret |-> BadFileSocket(pair.name), pair |-> pair]
    ELSE [ret |-> OkFile(pair.read), pair |-> [pair EXCEPT !.read = None]]

\* dup(self.write): [ret, fds]; the pair is borrowed immutably
SocketPair_write(pair, t) ==
    [ret |-> OkFile(LowestFree(t)), fds |-> OpenFd(t, t[pair.write].obj, FALSE)]

SocketPair_write_ref(pair) == pair.write

\* dropping a pair closes the descriptors it still owns
PairFds(pair) == {pair.read, pair.write} \ {None}

\* HashMap::insert per name; st = [pairs, fds]
RECURSIVE create_pipes(_, _)
create_pipes(names, st) ==
    IF names = <<>> THEN st
    ELSE CHOOSE r \in
            {create_pipes(rest, [pairs |-> (n :> new.pair) @@ s.pairs,
                                  fds |-> CloseFds(new.fds,
                                      IF n \in DOMAIN s.pairs THEN PairFds(s.pairs[n]) ELSE {})]) :
                <<n, rest, s, new>> \in
                    {<<Head(ns), Tail(ns), s0, PipePair_new(Head(ns), s0.fds)>> :
                        ns \in {names}, s0 \in {st}}} : TRUE

RECURSIVE create_sockets(_, _)
create_sockets(names, st) ==
    IF names = <<>> THEN st
    ELSE CHOOSE r \in
            {create_sockets(rest, [pairs |-> (n :> new.pair) @@ s.pairs,
                                  fds |-> CloseFds(new.fds,
                                      IF n \in DOMAIN s.pairs THEN PairFds(s.pairs[n]) ELSE {})]) :
                <<n, rest, s, new>> \in
                    {<<Head(ns), Tail(ns), s0, SocketPair_new(Head(ns), s0.fds)>> :
                        ns \in {names}, s0 \in {st}}} : TRUE

(***************************************************************************)
(* VoidSpec: a VoidBuilder is given its keep_fds, clones a child from a    *)
(* process with an arbitrary fd table, and the child runs                  *)
(* void_file_descriptors.                                                  *)
(***************************************************************************)
\* per channel: what is in flight, and everything ever written to it
NoChan == [k \in {"Pipe", "FileSocket"} \X ChannelNames |-> [queue |-> <<>>, log |-> <<>>]]

InheritedFile == File("file", "", "")

\* fd tables of a cloning process: 0, 1 and 2 are open (the Rust runtime
\* opens /dev/null on any that is closed at startup and nothing here closes
\* them), any descriptors from 3 up, any FD_CLOEXEC flags
InheritedTables ==
    UNION {{[f \in {0, 1, 2} \cup S |->
                Entry(IF f < 3 THEN StdFile(f) ELSE InheritedFile, f \in C)] :
            C \in SUBSET ({0, 1, 2} \cup S)} : S \in SUBSET (3..MaxFd)}

\* no child branch of VoidBuilder::spawn is being followed
NoChild == [pc |-> "off", caller |-> "", done |-> <<>>, failed |-> "", ran |-> FALSE, code |-> 0]

ChildIdle == child = NoChild

\* no argument preparation and no VoidBuilder is being followed
PrepIdle == prep = [pc |-> "off"]

BuilderIdle == builder = [pc |-> "off"]

MountIdle == mnt = [pc |-> "off"]

RpcIdle == rpc = [pc |-> "off"]

SupervisorIdle == sup = [pc |-> "off"]

unit_vars == <<prep, builder, mnt, rpc, sup>>

NoChildren == [c \in {} |-> [st |-> "running", code |-> 0]]

ReapIdle ==
    /\ daemon = FALSE
    /\ children = NoChildren
    /\ exit_code = 0
    /\ reaped = <<>>

reap_vars == <<daemon, children, exit_code, reaped>>

RunIdle ==
    /\ spec = <<>>
    /\ pc = "off"
    /\ result = Ok
    /\ next_entry = 0
    /\ spawner_pipes = NoPairs
    /\ spawner_sockets = NoPairs
    /\ fds = NoFds
    /\ procs = <<>>
    /\ chan = NoChan

run_vars == <<spec, pc, result, next_entry, spawner_pipes, spawner_sockets, fds, procs, chan>>

VoidIdle ==
    /\ vkeep = {}
    /\ vfds = NoFds
    /\ vinherited = NoFds
    /\ vnull = None
    /\ vpc = "off"

void_vars == <<vkeep, vfds, vinherited, vnull, vpc>>

VoidInit ==
    /\ RunIdle
    /\ ChildIdle
    /\ PrepIdle
    /\ BuilderIdle
    /\ MountIdle
    /\ RpcIdle
    /\ SupervisorIdle
    /\ ReapIdle
    /\ calls = NoFds
    /\ vkeep = {}
    /\ vinherited \in InheritedTables
    /\ vfds = NoFds
    /\ vnull = None
    /\ vpc = "build"

\* VoidBuilder::keep_fd
keep_fd(fd) ==
    /\ vpc = "build"
    /\ vkeep' = vkeep \cup {fd}
    /\ UNCHANGED <<vfds, vinherited, vnull, vpc>>

\* VoidBuilder::spawn: clone3 gives the child a copy of the fd table
void_clone ==
    /\ vpc = "build"
    /\ vfds' = vinherited
    /\ vpc' = "closefrom"
    /\ UNCHANGED <<vkeep, vinherited, vnull>>

void_closefrom ==
    /\ vpc = "closefrom"
    /\ vfds' = closefrom(vfds, vkeep)
    /\ vpc' = "std"
    /\ UNCHANGED <<vkeep, vinherited, vnull>>

\* the loop over [0, 1, 2] and the drop of nullfd at the end of its block
void_std ==
    /\ vpc = "std"
    /\ LET s0 == [fds |-> vfds, nullfd |-> None]
           s3 == void_std_step(void_std_step(void_std_step(s0, 0, vkeep), 1, vkeep), 2, vkeep)
       IN  /\ vfds' = s3.fds
           /\ vnull' = s3.nullfd
    /\ vpc' = "drop"
    /\ UNCHANGED <<vkeep, vinherited>>

void_drop_nullfd ==
    /\ vpc = "drop"
    /\ LET s == drop_nullfd([fds |-> vfds, nullfd |-> vnull])
       IN  /\ vfds' = s.fds
           /\ vnull' = s.nullfd
    /\ vpc' = "cloexec"
    /\ UNCHANGED <<vkeep, vinherited>>

\* the loop over keep: an Err from fcntl makes the child exit(-1)
void_cloexec ==
    /\ vpc = "cloexec"
    /\ IF cloexec_loop_ok(vfds, vkeep)
       THEN vfds' = clear_cloexec(vfds, vkeep) /\ vpc' = "done"
       ELSE vfds' = vfds /\ vpc' = "failed"
    /\ UNCHANGED <<vkeep, vinherited, vnull>>

void_unchanged == UNCHANGED <<run_vars, calls, child, reap_vars, unit_vars>>

VoidNext ==
    \/ \E fd \in 0..MaxFd : keep_fd(fd) /\ void_unchanged
    \/ void_clone /\ void_unchanged
    \/ void_closefrom /\ void_unchanged
    \/ void_std /\ void_unchanged
    \/ void_drop_nullfd /\ void_unchanged
    \/ void_cloexec /\ void_unchanged

VoidSpec == VoidInit /\ [][VoidNext]_vars

(***************************************************************************)
(* ChildSpec: the child branch of VoidBuilder::spawn.  clone3 has returned *)
(* 0 in a copy of the calling process; the copy runs the voiding calls one *)
(* by one and then the entry closure.  `child.caller` is the function that *)
(* called builder.spawn, whose code the copy is still inside of.           *)
(***************************************************************************)
\* the calls of the child branch in program order
VoidSteps_fds_before_mount ==
    <<"signal", "user", "fds", "mount", "ipc", "uts", "network", "pid", "cgroup">>

VoidSteps ==
    <<"signal", "user", "mount", "fds", "ipc", "uts", "network", "pid", "cgroup">>

StepIndex(s) == CHOOSE i \in 1..Len(VoidSteps) : VoidSteps[i] = s

\* what a call can return (TRUE: Ok): signal, the user namespace files, the
\* mounts and sethostname/setdomainname can fail in the kernel; fd voiding
\* fails when a kept descriptor is not open; the ipc, network, pid and cgroup
\* functions only return Ok(())
step_outcomes(s, t, keep) ==
    CASE s \in {"signal", "user", "mount", "uts"} -> BOOLEAN
      [] s = "fds" -> {void_file_descriptors(t, keep).ok}
      [] OTHER -> {TRUE}

\* the functions that call VoidBuilder::spawn
Callers == {"Spawner::spawn", "Spawner::pipe_trigger", "Spawner::file_socket_trigger"}

Err(msg) == [kind |-> "Err", name |-> msg]

\* main: the exit code of the process for the value run returned
main_exit(r) == IF r.kind = "Ok" THEN r.code ELSE -1

\* the code the caller's code exits with when builder.spawn(closure)? gets
\* an Err: Spawner::spawn and run pass it up to main; a trigger function
\* passes it to the closure of its supervisor void, which returns 1 to
\* std::process::exit(child_fn())
caller_exit(caller, e) == IF caller = "Spawner::spawn" THEN main_exit(e) ELSE 1

\* the operator `?` on an Err: neither the block `let result = { .. }` nor
\* `if child == Pid::from_raw(0) { .. }` is a function or closure body, so
\* the Err is returned from VoidBuilder::spawn itself
question_mark(c, s) == [c EXCEPT !.pc = "returned", !.failed = s]

ChildInit ==
    /\ RunIdle
    /\ ReapIdle
    /\ PrepIdle
    /\ BuilderIdle
    /\ MountIdle
    /\ RpcIdle
    /\ SupervisorIdle
    /\ calls = NoFds
    /\ vkeep \in SUBSET (0..MaxFd)
    /\ vinherited \in InheritedTables
    /\ vfds = vinherited
    /\ vnull = None
    /\ vpc = "off"
    /\ \E caller \in Callers :
          child = [NoChild EXCEPT !.pc = VoidSteps[1], !.caller = caller]

\* one call of the voiding sequence
void_step ==
    /\ child.pc \in Range(VoidSteps)
    /\ LET s == child.pc
           i == StepIndex(s)
       IN  \E ok \in step_outcomes(s, vfds, vkeep) :
              /\ child' = IF ok
                          THEN [child EXCEPT !.done = Append(@, s),
                                             !.pc = IF i = Len(VoidSteps) THEN "result"
                                                    ELSE VoidSteps[i + 1]]
                          ELSE question_mark(child, s)
              /\ vfds' = IF s = "fds" THEN void_file_descriptors(vfds, vkeep).fds ELSE vfds
    /\ UNCHANGED <<vkeep, vinherited, vnull, vpc>>

\* `if let Err(e) = result { exit(-1) } else { exit(child_fn()) }`: result
\* is the value of the block, Ok(()); the entry closure execs the entrypoint
\* or returns a code
void_result ==
    /\ child.pc = "result"
    /\ \E out \in {"exec", "return"}, code \in {0, 1} :
          child' = IF out = "exec"
                   THEN [child EXCEPT !.pc = "exec", !.ran = TRUE]
                   ELSE [child EXCEPT !.pc = "exited", !.ran = TRUE, !.code = code]
    /\ UNCHANGED void_vars

\* the child is back in the code that called builder.spawn(closure)?
caller_unwinds ==
    /\ child.pc = "returned"
    /\ child' = [child EXCEPT !.pc = "exited",
                              !.code = caller_exit(child.caller, Err(child.failed))]
    /\ UNCHANGED void_vars

child_unchanged == UNCHANGED <<run_vars, calls, reap_vars, unit_vars>>

ChildNext ==
    \/ void_step /\ child_unchanged
    \/ void_result /\ child_unchanged
    \/ caller_unwinds /\ child_unchanged

ChildSpec == ChildInit /\ [][ChildNext]_vars

(***************************************************************************)
(* spawner/args.rs: the ambient phase of argument preparation.             *)
(* st = [pipes, sockets, fds, keep, prepared, err]: the Spawner's fabric,  *)
(* the fd table of the preparing process, VoidBuilder.fds, the             *)
(* PreparedArgs built so far and the Err that ended the loop (Ok: none).   *)
(***************************************************************************)
Panic == [kind |-> "Panic", name |-> ""]

PreparedArg(type, fd) == [type |-> type, fd |-> fd]

PreparedFds(prepared) == {prepared[i].fd : i \in 1..Len(prepared)} \ {None}

\* a File taken or opened for the arg: keep_fd, push the PreparedArg
Prepared(st, type, fd) ==
    [st EXCEPT !.keep = @ \cup {fd}, !.prepared = Append(@, PreparedArg(type, fd))]

\* PreparedArg::prepare_ambient
prepare_ambient(st, arg) ==
    CASE arg.type = "Pipe" -> [st EXCEPT !.err = BadPipe(arg.name)]
      [] arg.type = "FileSocket" /\ arg.end = "Rx" ->
            [st EXCEPT !.err = BadFileSocket(arg.name)]
      [] arg.type = "FileSocket" /\ arg.end = "Tx" ->
            IF arg.name \notin DOMAIN st.sockets THEN [st EXCEPT !.err = Panic]
            ELSE LET r == SocketPair_write(st.sockets[arg.name], st.fds)
                 IN  Prepared([st EXCEPT !.fds = r.fds], "FileSocket", r.ret.fd)
      [] arg.type = "File" ->
            Prepared([st EXCEPT !.fds = OpenFd(st.fds, File("file", "", ""), TRUE)],
                     "File", LowestFree(st.fds))
      [] arg.type = "TcpListener" ->
            Prepared([st EXCEPT !.fds = OpenFd(st.fds, File("listener", "", ""), TRUE)],
                     "TcpListener", LowestFree(st.fds))
      [] OTHER -> [st EXCEPT !.prepared = Append(@, PreparedArg(arg.type, None))]

\* PreparedArg::prepare_ambient_mut
prepare_ambient_mut(st, arg) ==
    CASE arg.type = "Pipe" ->
            IF arg.name \notin DOMAIN st.pipes THEN [st EXCEPT !.err = Panic]
            ELSE LET r == IF arg.end = "Rx" THEN PipePair_take_read(st.pipes[arg.name])
                                            ELSE PipePair_take_write(st.pipes[arg.name])
                 IN  IF r.ret.kind # "File"
                     THEN [st EXCEPT !.err = r.ret]
                     ELSE Prepared([st EXCEPT !.pipes[arg.name] = r.pair], "Pipe", r.ret.fd)
      [] arg.type = "FileSocket" /\ arg.end = "Rx" ->
            IF arg.name \notin DOMAIN st.sockets THEN [st EXCEPT !.err = Panic]
            ELSE LET r == SocketPair_take_read(st.sockets[arg.name])
                 IN  IF r.ret.kind # "File"
                     THEN [st EXCEPT !.err = r.ret]
                     ELSE Prepared([st EXCEPT !.sockets[arg.name] = r.pair],
                                   "FileSocket", r.ret.fd)
      [] OTHER -> prepare_ambient(st, arg)

\* PreparedArgs::prepare_ambient_mut / prepare_ambient: the loop over args;
\* `?` leaves it at the first Err
RECURSIVE PreparedArgs_prepare(_, _, _)
PreparedArgs_prepare(st, args, mut) ==
    IF args = <<>> \/ st.err # Ok THEN st
    ELSE PreparedArgs_prepare(
            IF mut THEN prepare_ambient_mut(st, Head(args))
                   ELSE prepare_ambient(st, Head(args)),
            Tail(args), mut)

\* the PreparedArgs (whole, or the part built before an Err) are dropped in
\* the preparing process: every File they own is closed
DropPrepared_leaks(st) == st.fds
DropPrepared(st) == CloseFds(st.fds, PreparedFds(st.prepared))

(***************************************************************************)
(* spawner/mod.rs: Spawner::spawn in the orchestrator                      *)
(***************************************************************************)
\* a cloned or forked process: the memory it starts with (its copy of
\* Spawner.sockets, the builder's keep_fds, the PreparedArgs, the trigger
\* File and the TriggerData its closure owns) and its fd table; a worker's
\* read buffer and why it left its loop; the argv given to execv
Proc(kind, entry, parent, t, keep, trigfd, prepared, payload, socks) ==
    [kind |-> kind, entry |-> entry, parent |-> parent, fds |-> t, keep |-> keep,
     trigfd |-> trigfd, prepared |-> prepared, payload |-> payload, sockets |-> socks,
     st |-> "cloned", code |-> 0, buf |-> "", reason |-> "", argv |-> <<>>]

\* enum TriggerData: None, Pipe(&str), FileSocket(Vec<File>)
TriggerData(type, bytes, files) == [type |-> type, bytes |-> bytes, fds |-> files]

NoPayload == TriggerData("None", "", <<>>)

\* Spawner::forward_files: the shared write end of every socket an arg names
SocketArgNames(args) == {args[i].name : i \in {j \in 1..Len(args) : args[j].type = "FileSocket"}}

forward_files(args, socks) == {SocketPair_write_ref(socks[n]) : n \in SocketArgNames(args)}

\* Spawner::prepare_spawner: the keep_fds of a supervisor void
prepare_spawner(args, socks) == forward_files(args, socks) \cup {1, 2}

\* self.sockets.get(name).unwrap() / self.pipes.get_mut(s).unwrap() on a
\* name the fabric lacks
spawner_panics(e, ps, ss) ==
    \/ ~(SocketArgNames(e.args) \subseteq DOMAIN ss)
    \/ e.trigger.type = "Pipe" /\ e.trigger.name \notin DOMAIN ps
    \/ e.trigger.type = "FileSocket" /\ e.trigger.name \notin DOMAIN ss

\* every descriptor the Spawner's fabric still owns
FabricFds(ps, ss) ==
    UNION {PairFds(ps[n]) : n \in DOMAIN ps} \cup UNION {PairFds(ss[n]) : n \in DOMAIN ss}

\* spawn returns Err(e): run returns it, the Spawner temporary is dropped
spawn_fails_goes_on(e, t, ps, ss) ==
    /\ result' = e
    /\ next_entry' = next_entry + 1
    /\ fds' = t
    /\ spawner_pipes' = ps
    /\ spawner_sockets' = ss
    /\ UNCHANGED <<pc, procs>>

spawn_fails(e, t, ps, ss) ==
    /\ result' = e
    /\ pc' = "done"
    /\ fds' = CloseFds(t, FabricFds(ps, ss))
    /\ spawner_pipes' = NoPairs
    /\ spawner_sockets' = NoPairs
    /\ UNCHANGED <<next_entry, procs>>

\* Trigger::Startup arm
spawn_startup ==
    /\ pc = "spawn"
    /\ next_entry <= Len(spec)
    /\ spec[next_entry].trigger.type = "Startup"
    /\ LET st == PreparedArgs_prepare(
                    [pipes |-> spawner_pipes, sockets |-> spawner_sockets, fds |-> fds,
                     keep |-> {}, prepared |-> <<>>, err |-> Ok],
                    spec[next_entry].args, TRUE)
       IN  IF st.err # Ok
           THEN spawn_fails(st.err, DropPrepared(st), st.pipes, st.sockets)
           ELSE /\ procs' = Append(procs,
                        Proc("entry", next_entry, 0, st.fds, st.keep, None, st.prepared,
                             NoPayload, st.sockets))
                /\ fds' = DropPrepared(st)
                /\ spawner_pipes' = st.pipes
                /\ spawner_sockets' = st.sockets
                /\ next_entry' = next_entry + 1
                /\ UNCHANGED <<pc, result>>
    /\ UNCHANGED <<spec, chan>>

\* Trigger::Pipe arm: the supervisor void keeps the read end of the pipe
spawn_pipe ==
    /\ pc = "spawn"
    /\ next_entry <= Len(spec)
    /\ spec[next_entry].trigger.type = "Pipe"
    /\ LET s == spec[next_entry].trigger.name
           r == PipePair_take_read(spawner_pipes[s])
           keep == prepare_spawner(spec[next_entry].args, spawner_sockets)
       IN  IF spawner_panics(spec[next_entry], spawner_pipes, spawner_sockets)
           THEN spawn_fails(Panic, fds, spawner_pipes, spawner_sockets)
           ELSE IF r.ret.kind # "File"
           THEN spawn_fails(r.ret, fds, spawner_pipes, spawner_sockets)
           ELSE /\ procs' = Append(procs,
                        Proc("supervisor", next_entry, 0, fds, keep \cup {r.ret.fd},
                             r.ret.fd, <<>>, NoPayload, spawner_sockets))
                /\ fds' = CloseFd(fds, r.ret.fd)
                /\ spawner_pipes' = [spawner_pipes EXCEPT ![s] = r.pair]
                /\ next_entry' = next_entry + 1
                /\ UNCHANGED <<pc, result, spawner_sockets>>
    /\ UNCHANGED <<spec, chan>>

\* Trigger::FileSocket arm
spawn_file_socket ==
    /\ pc = "spawn"
    /\ next_entry <= Len(spec)
    /\ spec[next_entry].trigger.type = "FileSocket"
    /\ LET s == spec[next_entry].trigger.name
           r == SocketPair_take_read(spawner_sockets[s])
           keep == prepare_spawner(spec[next_entry].args, spawner_sockets)
       IN  IF spawner_panics(spec[next_entry], spawner_pipes, spawner_sockets)
           THEN spawn_fails(Panic, fds, spawner_pipes, spawner_sockets)
           ELSE IF r.ret.kind # "File"
           THEN spawn_fails(r.ret, fds, spawner_pipes, spawner_sockets)
           ELSE /\ procs' = Append(procs,
                        Proc("supervisor", next_entry, 0, fds, keep \cup {r.ret.fd},
                             r.ret.fd, <<>>, NoPayload,
                             [spawner_sockets EXCEPT ![s] = r.pair]))
                /\ fds' = CloseFd(fds, r.ret.fd)
                /\ spawner_sockets' = [spawner_sockets EXCEPT ![s] = r.pair]
                /\ next_entry' = next_entry + 1
                /\ UNCHANGED <<pc, result, spawner_pipes>>
    /\ UNCHANGED <<spec, chan>>

\* the steps of one iteration of Spawner::spawn that the host can fail:
\* canonicalize in mount_entrypoint, File::open / TcpListener::bind for an
\* argument in prepare_ambient_mut, clone3 in VoidBuilder::spawn
SpawnErrors == {"canonicalize", "open", "clone3"}

\* the iteration for entrypoint next_entry fails at step `at`: what was
\* prepared or taken before that step is dropped with the frame of spawn
spawn_error(at) ==
    /\ pc = "spawn"
    /\ next_entry <= Len(spec)
    /\ LET e == spec[next_entry]
           s == e.trigger.name
           init == [pipes |-> spawner_pipes, sockets |-> spawner_sockets, fds |-> fds,
                    keep |-> {}, prepared |-> <<>>, err |-> Ok]
           all == PreparedArgs_prepare(init, e.args, TRUE)
       IN  CASE at = "canonicalize" ->
                    spawn_fails(Err(at), fds, spawner_pipes, spawner_sockets)
             [] at = "open" ->
                    /\ e.trigger.type = "Startup"
                    /\ \E k \in DOMAIN e.args :
                          LET st == PreparedArgs_prepare(init, SubSeq(e.args, 1, k - 1), TRUE)
                          IN  /\ e.args[k].type = "File"
                              /\ st.err = Ok
                              /\ spawn_fails(Err(at), DropPrepared(st), st.pipes, st.sockets)
             [] at = "clone3" /\ e.trigger.type = "Startup" ->
                    /\ all.err = Ok
                    /\ spawn_fails(Err(at), DropPrepared(all), all.pipes, all.sockets)
             [] at = "clone3" /\ e.trigger.type = "Pipe" ->
                    LET r == PipePair_take_read(spawner_pipes[s])
                    IN  /\ ~spawner_panics(e, spawner_pipes, spawner_sockets)
                        /\ r.ret.kind = "File"
                        /\ spawn_fails(Err(at), CloseFd(fds, r.ret.fd),
                                       [spawner_pipes EXCEPT ![s] = r.pair], spawner_sockets)
             [] at = "clone3" /\ e.trigger.type = "FileSocket" ->
                    LET r == SocketPair_take_read(spawner_sockets[s])
                    IN  /\ ~spawner_panics(e, spawner_pipes, spawner_sockets)
                        /\ r.ret.kind = "File"
                        /\ spawn_fails(Err(at), CloseFd(fds, r.ret.fd),
                                       spawner_pipes, [spawner_sockets EXCEPT ![s] = r.pair])
    /\ UNCHANGED <<spec, chan>>

\* the loop over the entrypoints is over: Spawner::spawn returns Ok(())
\* `for (name, entrypoint) in &self.spec.entrypoints` has no entrypoint left
entrypoints_done_after_first(n, entrypoints) == n > 1
entrypoints_done(n, entrypoints) == n > Len(entrypoints)

spawn_return ==
    /\ pc = "spawn"
    /\ entrypoints_done(next_entry, spec)
    /\ pc' = "spawned"
    /\ UNCHANGED <<spec, result, next_entry, spawner_pipes, spawner_sockets, fds, procs, chan>>

(***************************************************************************)
(* The cloned children: VoidBuilder::spawn's child branch, the closures    *)
(* of Spawner::spawn, fork_for_trigger and the trigger loops               *)
(***************************************************************************)
Exited(proc, code) == [proc EXCEPT !.st = "exited", !.code = code, !.fds = NoFds]

\* the function a process was inside of when it was cloned
CallerOf(proc) ==
    IF proc.parent = 0 THEN "Spawner::spawn"
    ELSE IF spec[proc.entry].trigger.type = "Pipe" THEN "Spawner::pipe_trigger"
    ELSE "Spawner::file_socket_trigger"

\* the child branch of VoidBuilder::spawn up to child_fn(): a failed voiding
\* returns its Err into the caller's code, which exits
child_void(p) ==
    /\ procs[p].st = "cloned"
    /\ \E r \in {void_file_descriptors(procs[p].fds, procs[p].keep)} :
          procs' = [procs EXCEPT ![p] =
                       IF r.ok THEN [@ EXCEPT !.st = "voided", !.fds = r.fds]
                       ELSE Exited(@, caller_exit(CallerOf(@), Err("fds")))]
    /\ UNCHANGED <<spec, pc, result, next_entry, spawner_pipes, spawner_sockets, fds, chan>>

\* execve closes the descriptors that have FD_CLOEXEC set
execv(t) == Restrict(t, {f \in DOMAIN t : ~t[f].cloexec})

\* Spawner.binary, Spawner.binary_args
binary == "target"

binary_args == <<"--port", "80">>

Spawner(b, a) == [binary |-> b, binary_args |-> a]

Digits == <<"0", "1", "2", "3", "4", "5", "6", "7", "8", "9">>

\* RawFd::to_string: the decimal digits of a descriptor number
RECURSIVE to_string(_)
to_string(n) ==
    IF n < 10 THEN Digits[n + 1] ELSE to_string(n \div 10) \o Digits[(n % 10) + 1]

\* TriggerData::args: [args, trigger]; FileSocket drains its Vec<File> with
\* into_raw_fd, so the Files it held stay open and it is left empty
TriggerData_args_first_only(trigger) ==
    CASE trigger.type = "Pipe" -> [args |-> <<trigger.bytes>>, trigger |-> trigger]
      [] trigger.type = "FileSocket" ->
            [args |-> [i \in 1..Min(1, Len(trigger.fds)) |-> to_string(trigger.fds[i])],
             trigger |-> [trigger EXCEPT !.fds = <<>>]]
      [] OTHER -> [args |-> <<>>, trigger |-> trigger]

TriggerData_args(trigger) ==
    CASE trigger.type = "Pipe" -> [args |-> <<trigger.bytes>>, trigger |-> trigger]
      [] trigger.type = "FileSocket" ->
            [args |-> [i \in 1..Len(trigger.fds) |-> to_string(trigger.fds[i])],
             trigger |-> [trigger EXCEPT !.fds = <<>>]]
      [] OTHER -> [args |-> <<>>, trigger |-> trigger]

\* PreparedArg::prepare_void: [args, trigger]
prepare_void(arg, spawner, entrypoint, trigger) ==
    CASE arg.type = "BinaryName" -> [args |-> <<spawner.binary>>, trigger |-> trigger]
      [] arg.type = "Entrypoint" -> [args |-> <<entrypoint>>, trigger |-> trigger]
      [] arg.type \in {"Pipe", "FileSocket", "File", "TcpListener"} ->
            [args |-> <<to_string(arg.fd)>>, trigger |-> trigger]
      [] arg.type = "Trailing" -> [args |-> spawner.binary_args, trigger |-> trigger]
      [] OTHER -> TriggerData_args(trigger)

\* PreparedArgs::prepare_void: the loop over the args, `v.extend(..)`;
\* st = [argv, trigger]
extend_front(v, args) == args \o v

extend(v, args) == v \o args

RECURSIVE PreparedArgs_prepare_void(_, _, _, _)
PreparedArgs_prepare_void(prepared, spawner, entrypoint, st) ==
    IF prepared = <<>> THEN st
    ELSE LET r == prepare_void(Head(prepared), spawner, entrypoint, st.trigger)
         IN  PreparedArgs_prepare_void(Tail(prepared), spawner, entrypoint,
                 [argv |-> extend(st.argv, r.args), trigger |-> r.trigger])

\* the closure of an entrypoint's void: prepare_void, then the temporary
\* TriggerData is dropped, which closes the Files still in it, then
\* execv("/entrypoint", argv)
entry_exec(p) ==
    /\ procs[p].kind = "entry"
    /\ procs[p].st = "voided"
    /\ LET v == PreparedArgs_prepare_void(procs[p].prepared,
                    Spawner(binary, binary_args), spec[procs[p].entry].name,
                    [argv |-> <<>>, trigger |-> procs[p].payload])
       IN  procs' = [procs EXCEPT ![p].st = "exec",
                                 ![p].argv = v.argv,
                                 ![p].fds = execv(CloseFds(@, Range(v.trigger.fds)))]
    /\ UNCHANGED <<spec, pc, result, next_entry, spawner_pipes, spawner_sockets, fds, chan>>

\* Spawner::fork_for_trigger: the supervisor forks the worker and waits
fork_for_trigger(p) ==
    /\ procs[p].kind = "supervisor"
    /\ procs[p].st = "voided"
    /\ procs' = Append([procs EXCEPT ![p].st = "waiting"],
                       [procs[p] EXCEPT !.kind = "worker", !.parent = p, !.st = "loop"])
    /\ UNCHANGED <<spec, pc, result, next_entry, spawner_pipes, spawner_sockets, fds, chan>>

\* some process still has an open descriptor for this file
HeldBy(obj, t) == \E f \in DOMAIN t : t[f].obj = obj

IsOpen(obj) == HeldBy(obj, fds) \/ \E q \in DOMAIN procs : HeldBy(obj, procs[q].fds)

\* the closure of a supervisor void: `Ok(()) => exitcode::OK`, `Err(e) => 1`;
\* a panic ends the process with status 101
closure_code(r) == IF r = Ok THEN 0 ELSE IF r = Panic THEN 101 ELSE 1

\* a worker leaves its trigger function with result r
Left(proc, reason, r) == [Exited(proc, closure_code(r)) EXCEPT !.reason = reason]

\* the Err arm of the match on pipe.read / recvmsg
on_trigger_error_propagates(e) == Err(e)

on_trigger_error(e) == IF e = "EINTR" THEN Ok ELSE Err(e)

\* the closure given to builder.spawn owns the Vec<File> of the received
\* descriptors (it is moved into TriggerData::FileSocket(fds)); the worker
\* drops the closure when spawn returns, which closes them in the worker
drop_closure_leaks(t, owned) == t

drop_closure(t, owned) == CloseFds(t, owned)

\* one iteration of the loop of a trigger worker once the arrival is read:
\* a fresh builder with keep_fds `keep`, prepare_ambient, clone the void,
\* drop what the closure owned; an Err leaves the trigger function
trigger_spawn(w, t, keep, payload, owned) ==
    LET st == PreparedArgs_prepare(
                [pipes |-> NoPairs, sockets |-> procs[w].sockets, fds |-> t,
                 keep |-> keep, prepared |-> <<>>, err |-> Ok],
                spec[procs[w].entry].args, FALSE)
    IN  IF st.err # Ok
        THEN procs' = [procs EXCEPT ![w] = Left(@, "error", st.err)]
        ELSE procs' = Append(
                [procs EXCEPT ![w].fds = drop_closure(DropPrepared(st), owned),
                              ![w].st = "loop",
                              ![w].buf = ""],
                Proc("entry", procs[w].entry, w, st.fds, st.keep, None, st.prepared,
                     payload, procs[w].sockets))

RECURSIVE Concat(_)
Concat(q) == IF q = <<>> THEN "" ELSE Head(q) \o Concat(Tail(q))

\* PipePair::new, pipe2(O_DIRECT): the pipe is in packet mode, a read takes
\* the bytes of one write and no more
\* `pipe.read(&mut buf)` on a packet-mode pipe: at most buf.len() bytes of
\* the next packet are returned, the excess bytes of the packet are discarded
read_buf(packet, size) == SubSeq(packet, 1, Min(Len(packet), size))

pipe_packet_stream(queue) == [bytes |-> Concat(queue), rest |-> <<>>]

pipe_packet(queue) == [bytes |-> Head(queue), rest |-> Tail(queue)]

\* the worker is at `pipe.read(&mut buf)`
pipe_at_read_or_spawn(proc) == proc.st \in {"loop", "triggered"}

pipe_at_read(proc) == proc.st = "loop"

\* Spawner::pipe_trigger, `pipe.read(&mut buf)`: a record is read into buf,
\* or 0 bytes are read because every write end is closed and the function
\* returns Ok(())
pipe_read(w) ==
    /\ procs[w].kind = "worker"
    /\ pipe_at_read(procs[w])
    /\ spec[procs[w].entry].trigger.type = "Pipe"
    /\ LET k == <<"Pipe", spec[procs[w].entry].trigger.name>>
       IN  IF chan[k].queue # <<>>
           THEN /\ chan' = [chan EXCEPT ![k].queue = pipe_packet(@).rest]
                /\ procs' = [procs EXCEPT ![w].st = "triggered",
                                          ![w].buf = read_buf(pipe_packet(chan[k].queue).bytes,
                                                            BUFFER_SIZE)]
           ELSE /\ ~IsOpen(File("pipe", k[2], "write"))
                /\ procs' = [procs EXCEPT ![w] = Left(@, "eof", Ok)]
                /\ UNCHANGED chan
    /\ UNCHANGED <<spec, pc, result, next_entry, spawner_pipes, spawner_sockets, fds>>

\* Spawner::pipe_trigger, the rest of the iteration: the void for the record
\* in buf
pipe_spawn(w) ==
    /\ procs[w].kind = "worker"
    /\ procs[w].st = "triggered"
    /\ trigger_spawn(w, procs[w].fds, {}, TriggerData("Pipe", procs[w].buf, <<>>), {})
    /\ UNCHANGED <<spec, pc, result, next_entry, spawner_pipes, spawner_sockets, fds, chan>>

\* the descriptors of an SCM_RIGHTS message that fit the control buffer,
\* cmsg_space!([RawFd; MAX_FILE_DESCRIPTORS]); the others are discarded
Fitting(files) == SubSeq(files, 1, Min(Len(files), MAX_FILE_DESCRIPTORS))

\* recvmsg installs the descriptors of an SCM_RIGHTS message in the table
RECURSIVE Install(_, _)
Install(t, files) ==
    IF files = <<>> THEN t ELSE Install(OpenFd(t, Head(files), FALSE), Tail(files))

\* the descriptor numbers Install gives them, in order
RECURSIVE Installed(_, _)
Installed(t, files) ==
    IF files = <<>> THEN <<>>
    ELSE <<LowestFree(t)>> \o Installed(OpenFd(t, Head(files), FALSE), Tail(files))

\* msg.cmsgs(): the control messages of a received datagram, each the
\* descriptors of an SCM_RIGHTS message
cmsgs_always(msg) == <<msg.files>>

cmsgs(msg) == IF msg.rights THEN <<msg.files>> ELSE <<>>

\* Spawner::file_socket_trigger: receive a datagram; a void is built for its
\* SCM_RIGHTS control message, keeping the received descriptors
file_socket_trigger(w) ==
    /\ procs[w].kind = "worker"
    /\ procs[w].st = "loop"
    /\ spec[procs[w].entry].trigger.type = "FileSocket"
    /\ LET k == <<"FileSocket", spec[procs[w].entry].trigger.name>>
           msg == Head(chan[k].queue)
           files == IF cmsgs(msg) = <<>> THEN <<>> ELSE Fitting(cmsgs(msg)[1])
           t == Install(procs[w].fds, files)
           got == Installed(procs[w].fds, files)
       IN  /\ chan[k].queue # <<>>
           /\ chan' = [chan EXCEPT ![k].queue = Tail(@)]
           /\ IF cmsgs(msg) # <<>>
              THEN trigger_spawn(w, t, Range(got), TriggerData("FileSocket", "", got),
                                 Range(got))
              ELSE UNCHANGED procs
    /\ UNCHANGED <<spec, pc, result, next_entry, spawner_pipes, spawner_sockets, fds>>

\* read / recvmsg, blocked, is interrupted by a signal
trigger_eintr(w) ==
    /\ procs[w].kind = "worker"
    /\ procs[w].st = "loop"
    /\ procs' = [procs EXCEPT ![w] = Left(@, "eintr", on_trigger_error("EINTR"))]
    /\ UNCHANGED <<spec, pc, result, next_entry, spawner_pipes, spawner_sockets, fds, chan>>

\* fork_for_trigger in the supervisor: waitid reports the worker's exit
supervisor_exit(p) ==
    /\ procs[p].kind = "supervisor"
    /\ procs[p].st = "waiting"
    /\ \E w \in DOMAIN procs :
          /\ procs[w].kind = "worker" /\ procs[w].parent = p /\ procs[w].st = "exited"
          /\ procs' = [procs EXCEPT ![p] = Exited(@, procs[w].code)]
    /\ UNCHANGED <<spec, pc, result, next_entry, spawner_pipes, spawner_sockets, fds, chan>>

(***************************************************************************)
(* The target binary running as an entrypoint (examples/): it may write    *)
(* to the pipes and sockets it was given, and exit                         *)
(***************************************************************************)
\* the records a writer writes, in order (examples/pipes: pipe_sender writes
\* the first two)
Records == <<"some data", "some more data", "even more data", "yet more data">>

Record(i) == Records[Min(i, Len(Records))]

\* examples/tls: a datagram carries an SCM_RIGHTS control message with the
\* descriptors sent, or no control message
Payload == File("payload", "", "")

Datagrams == {[rights |-> FALSE, files |-> <<>>],
              [rights |-> TRUE, files |-> <<Payload, Payload>>]}

entry_write(p, n) ==
    /\ procs[p].st = "exec"
    /\ HeldBy(File("pipe", n, "write"), procs[p].fds)
    /\ Len(chan[<<"Pipe", n>>].log) < MaxRecords
    /\ LET r == Record(Len(chan[<<"Pipe", n>>].log) + 1)
       IN  chan' = [chan EXCEPT ![<<"Pipe", n>>] =
                       [queue |-> Append(@.queue, r), log |-> Append(@.log, r)]]
    /\ UNCHANGED <<spec, pc, result, next_entry, spawner_pipes, spawner_sockets, fds, procs>>

entry_send(p, n) ==
    /\ procs[p].st = "exec"
    /\ HeldBy(File("socket", n, "write"), procs[p].fds)
    /\ Len(chan[<<"FileSocket", n>>].log) < MaxRecords
    /\ \E d \in Datagrams :
          chan' = [chan EXCEPT ![<<"FileSocket", n>>] =
                      [queue |-> Append(@.queue, d), log |-> Append(@.log, d)]]
    /\ UNCHANGED <<spec, pc, result, next_entry, spawner_pipes, spawner_sockets, fds, procs>>

entry_exit(p) ==
    /\ procs[p].st = "exec"
    /\ procs' = [procs EXCEPT ![p] = Exited(@, 0)]
    /\ UNCHANGED <<spec, pc, result, next_entry, spawner_pipes, spawner_sockets, fds, chan>>

(***************************************************************************)
(* lib.rs: run                                                             *)
(***************************************************************************)
RunInit ==
    /\ VoidIdle
    /\ ChildIdle
    /\ PrepIdle
    /\ BuilderIdle
    /\ MountIdle
    /\ RpcIdle
    /\ SupervisorIdle
    /\ ReapIdle
    /\ calls = NoFds
    /\ IsSpecification(spec)
    /\ pc = "start"
    /\ result = Ok
    /\ next_entry = 0
    /\ spawner_pipes = NoPairs
    /\ spawner_sockets = NoPairs
    /\ fds = StdFds
    /\ procs = <<>>
    /\ chan = NoChan

\* spec.validate()?
run_validate_unchecked ==
    /\ pc = "start"
    /\ pc' = "fabric"
    /\ UNCHANGED <<spec, result, next_entry, spawner_pipes, spawner_sockets, fds, procs, chan>>

run_validate ==
    /\ pc = "start"
    /\ \E r \in validate(spec) :
          /\ result' = r
          /\ pc' = IF r = Ok THEN "fabric" ELSE "done"
    /\ UNCHANGED <<spec, next_entry, spawner_pipes, spawner_sockets, fds, procs, chan>>

\* create_pipes(spec.pipes().0), create_sockets(spec.sockets().0), and the
\* Spawner is built
run_create_fabric_triggers_only ==
    /\ pc = "fabric"
    /\ LET triggers(type) ==
               LET idx == {i \in DOMAIN spec : spec[i].trigger.type = type}
               IN  IF idx = {} THEN <<>> ELSE <<spec[CHOOSE i \in idx : TRUE].trigger.name>>
           p == create_pipes(triggers("Pipe"), [pairs |-> NoPairs, fds |-> fds])
           k == create_sockets(triggers("FileSocket"), [pairs |-> NoPairs, fds |-> p.fds])
       IN  /\ spawner_pipes' = p.pairs
           /\ spawner_sockets' = k.pairs
           /\ fds' = k.fds
    /\ pc' = "spawn"
    /\ next_entry' = 1
    /\ UNCHANGED <<spec, result, procs, chan>>

run_create_fabric ==
    /\ pc = "fabric"
    /\ \E pnames \in {pipes(spec).read}, snames \in {sockets(spec).read} :
          \E p \in {create_pipes(pnames, [pairs |-> NoPairs, fds |-> fds])} :
          \E k \in {create_sockets(snames, [pairs |-> NoPairs, fds |-> p.fds])} :
              /\ spawner_pipes' = p.pairs
              /\ spawner_sockets' = k.pairs
              /\ fds' = k.fds
    /\ pc' = "spawn"
    /\ next_entry' = 1
    /\ UNCHANGED <<spec, result, procs, chan>>

run_drop_spawner_forgets ==
    /\ pc = "spawned"
    /\ fds' = fds
    /\ spawner_pipes' = NoPairs
    /\ spawner_sockets' = NoPairs
    /\ pc' = "after_spawn"
    /\ UNCHANGED <<spec, result, next_entry, procs, chan>>

\* the statement `Spawner { .. }.spawn()?;` ends: the Spawner temporary is
\* dropped and with it every endpoint the fabric still owns
run_drop_spawner ==
    /\ pc = "spawned"
    /\ fds' = CloseFds(fds, FabricFds(spawner_pipes, spawner_sockets))
    /\ spawner_pipes' = NoPairs
    /\ spawner_sockets' = NoPairs
    /\ pc' = "after_spawn"
    /\ UNCHANGED <<spec, result, next_entry, procs, chan>>

run_unchanged == UNCHANGED <<calls, void_vars, child, reap_vars, unit_vars>>

Next ==
    \/ run_validate /\ run_unchanged
    \/ run_create_fabric /\ run_unchanged
    \/ spawn_startup /\ run_unchanged
    \/ spawn_pipe /\ run_unchanged
    \/ spawn_file_socket /\ run_unchanged
    \/ spawn_return /\ run_unchanged
    \/ run_drop_spawner /\ run_unchanged
    \/ \E p \in DOMAIN procs : child_void(p) /\ run_unchanged
    \/ \E p \in DOMAIN procs : entry_exec(p) /\ run_unchanged
    \/ \E p \in DOMAIN procs : fork_for_trigger(p) /\ run_unchanged
    \/ \E p \in DOMAIN procs : pipe_read(p) /\ run_unchanged
    \/ \E p \in DOMAIN procs : pipe_spawn(p) /\ run_unchanged
    \/ \E p \in DOMAIN procs : file_socket_trigger(p) /\ run_unchanged
    \/ \E p \in DOMAIN procs : trigger_eintr(p) /\ run_unchanged
    \/ \E p \in DOMAIN procs : supervisor_exit(p) /\ run_unchanged
    \/ \E p \in DOMAIN procs, n \in ChannelNames : entry_write(p, n) /\ run_unchanged
    \/ \E p \in DOMAIN procs, n \in ChannelNames : entry_send(p, n) /\ run_unchanged
    \/ \E p \in DOMAIN procs : entry_exit(p) /\ run_unchanged

Spec == RunInit /\ [][Next]_vars

\* run on a host where a step of Spawner::spawn may fail
FailNext ==
    \/ Next
    \/ \E at \in SpawnErrors : spawn_error(at) /\ run_unchanged

FailSpec == RunInit /\ [][FailNext]_vars

(***************************************************************************)
(* ReapSpec: run() from the end of the statement `Spawner {..}.spawn()?;`  *)
(* on.  The orchestrator has some children (the voids Spawner::spawn       *)
(* cloned); each runs until it exits with a code or is killed by a signal. *)
(***************************************************************************)
\* the codes a child passes to exit
ExitCodes == {0, 1, 2, -1}

\* the exit status a waiting parent is given: the low 8 bits of the code
WaitCode(code) == code % 256

\* Ok(exit_code): the value run returns
OkCode(code) == [kind |-> "Ok", name |-> "", code |-> code]

\* what waitid returned
WaitStatus(kind, pid, code) == [kind |-> kind, pid |-> pid, code |-> code]

ReapInit ==
    /\ VoidIdle
    /\ ChildIdle
    /\ PrepIdle
    /\ BuilderIdle
    /\ MountIdle
    /\ RpcIdle
    /\ SupervisorIdle
    /\ calls = NoFds
    /\ spec = <<>>
    /\ next_entry = 0
    /\ spawner_pipes = NoPairs
    /\ spawner_sockets = NoPairs
    /\ fds = StdFds
    /\ procs = <<>>
    /\ chan = NoChan
    /\ pc = "after_spawn"
    /\ result = Ok
    /\ daemon \in BOOLEAN
    /\ \E n \in 0..MaxChildren : children = [c \in 1..n |-> [st |-> "running", code |-> 0]]
    /\ exit_code = 0
    /\ reaped = <<>>

\* a child of the orchestrator exits
child_exits(c) ==
    /\ children[c].st = "running"
    /\ \E code \in ExitCodes :
          children' = [children EXCEPT ![c] = [st |-> "exited", code |-> WaitCode(code)]]
    /\ UNCHANGED <<pc, result, daemon, exit_code, reaped>>

\* a child of the orchestrator is terminated by a signal
child_killed(c) ==
    /\ children[c].st = "running"
    /\ children' = [children EXCEPT ![c].st = "signaled"]
    /\ UNCHANGED <<pc, result, daemon, exit_code, reaped>>

\* `if args.daemon { return Ok(exitcode::OK); }`
run_daemon_ignored(d) == FALSE

run_daemon(d) == d

\* the branch on args.daemon, and `let mut exit_code = exitcode::OK;`
run_after_spawn ==
    /\ pc = "after_spawn"
    /\ IF run_daemon(daemon)
       THEN /\ result' = OkCode(0)
            /\ pc' = "done"
            /\ UNCHANGED exit_code
       ELSE /\ exit_code' = 0
            /\ pc' = "reap"
            /\ UNCHANGED result
    /\ UNCHANGED <<daemon, children, reaped>>

\* the assignment under WaitStatus::Exited(pid, code)
reap_exit_code(current, code) == IF code # 0 THEN code ELSE current

\* the arm `WaitStatus::Signaled(pid, sig, _coredump)`: a debug! line only
reap_signaled_fails(current) == IF current = 0 THEN 1 ELSE current

reap_signaled(current) == current

\* the arms of the match on waitid's error: `Err(nix::Error::ECHILD)` breaks
\* out of the loop, every other error is returned with `?`
reap_loop_breaks_on_any(errno) == TRUE

reap_loop_breaks(errno) == errno = "ECHILD"

\* what run returns when waitid failed with errno
run_waitid_err(errno, code) == IF reap_loop_breaks(errno) THEN OkCode(code) ELSE Err("waitpid")

\* waitid(Id::All, WEXITED) returns a terminated child
run_waitid_child(c) ==
    /\ pc = "reap"
    /\ children[c].st \in {"exited", "signaled"}
    /\ children' = [children EXCEPT ![c].st = "reaped"]
    /\ IF children[c].st = "exited"
       THEN /\ reaped' = Append(reaped, WaitStatus("Exited", c, children[c].code))
            /\ exit_code' = reap_exit_code(exit_code, children[c].code)
       ELSE /\ reaped' = Append(reaped, WaitStatus("Signaled", c, 0))
            /\ exit_code' = reap_signaled(exit_code)
    /\ UNCHANGED <<pc, result, daemon>>

\* waitid fails with ECHILD: no child is left to wait for; the loop breaks
\* and run returns Ok(exit_code)
run_waitid_echild ==
    /\ pc = "reap"
    /\ \A c \in DOMAIN children : children[c].st = "reaped"
    /\ reaped' = Append(reaped, WaitStatus("ECHILD", 0, 0))
    /\ result' = run_waitid_err("ECHILD", exit_code)
    /\ pc' = "done"
    /\ UNCHANGED <<daemon, children, exit_code>>

\* waitid, blocked because no child has terminated yet, is interrupted by a
\* signal: `Err(e) => Err(Error::Nix { msg: "waitpid", src: e })` and `?`
run_waitid_eintr ==
    /\ pc = "reap"
    /\ \E c \in DOMAIN children : children[c].st = "running"
    /\ \A c \in DOMAIN children : children[c].st \notin {"exited", "signaled"}
    /\ reaped' = Append(reaped, WaitStatus("EINTR", 0, 0))
    /\ result' = run_waitid_err("EINTR", exit_code)
    /\ pc' = "done"
    /\ UNCHANGED <<daemon, children, exit_code>>

reap_unchanged ==
    UNCHANGED <<spec, next_entry, spawner_pipes, spawner_sockets, fds, procs, chan,
                calls, void_vars, child, unit_vars>>

ReapNext ==
    \/ \E c \in DOMAIN children : child_exits(c) /\ reap_unchanged
    \/ \E c \in DOMAIN children : child_killed(c) /\ reap_unchanged
    \/ run_after_spawn /\ reap_unchanged
    \/ \E c \in DOMAIN children : run_waitid_child(c) /\ reap_unchanged
    \/ run_waitid_echild /\ reap_unchanged
    \/ run_waitid_eintr /\ reap_unchanged

ReapSpec == ReapInit /\ [][ReapNext]_vars

(***************************************************************************)
(* TerminationSpec: run in non-daemon mode for a specification whose       *)
(* entrypoints are triggered at startup or by a pipe, from validate to the *)
(* return of the reap loop, with the processes it spawns.  Every step of   *)
(* the program is taken if it stays possible; what the entrypoints do, and *)
(* signals, are left to the host.                                          *)
(***************************************************************************)
TerminationInit ==
    /\ RunInit
    /\ \A i \in DOMAIN spec : spec[i].trigger.type \in {"Startup", "Pipe"}

\* the children the orchestrator has waited for
ReapedPids == {reaped[i].pid : i \in DOMAIN reaped}

\* `if args.daemon { .. }` is not taken; `let mut exit_code = exitcode::OK;`
reap_start ==
    /\ pc = "after_spawn"
    /\ ~run_daemon(daemon)
    /\ pc' = "reap"
    /\ exit_code' = 0
    /\ UNCHANGED <<result, reaped>>

\* waitid(Id::All, WEXITED) returns a void of Spawner::spawn that has exited
reap_waitid_child(p) ==
    /\ pc = "reap"
    /\ procs[p].parent = 0
    /\ procs[p].st = "exited"
    /\ p \notin ReapedPids
    /\ reaped' = Append(reaped, WaitStatus("Exited", p, WaitCode(procs[p].code)))
    /\ exit_code' = reap_exit_code(exit_code, WaitCode(procs[p].code))
    /\ UNCHANGED <<pc, result>>

\* waitid fails: with ECHILD when every child has been waited for, with
\* EINTR when a signal interrupts it while it is blocked
reap_waitid_err(errno) ==
    /\ pc = "reap"
    /\ LET left == {p \in DOMAIN procs : procs[p].parent = 0} \ ReapedPids
       IN  IF errno = "ECHILD" THEN left = {}
           ELSE left # {} /\ \A p \in left : procs[p].st # "exited"
    /\ reaped' = Append(reaped, WaitStatus(errno, 0, 0))
    /\ result' = run_waitid_err(errno, exit_code)
    /\ pc' = "done"
    /\ UNCHANGED exit_code

reap_frame ==
    UNCHANGED <<spec, next_entry, spawner_pipes, spawner_sockets, fds, procs, chan,
                calls, void_vars, child, unit_vars, daemon, children>>

\* the steps of the program
TerminationProgram ==
    \/ run_validate /\ run_unchanged
    \/ run_create_fabric /\ run_unchanged
    \/ spawn_startup /\ run_unchanged
    \/ spawn_pipe /\ run_unchanged
    \/ spawn_return /\ run_unchanged
    \/ run_drop_spawner /\ run_unchanged
    \/ \E p \in DOMAIN procs : child_void(p) /\ run_unchanged
    \/ \E p \in DOMAIN procs : entry_exec(p) /\ run_unchanged
    \/ \E p \in DOMAIN procs : fork_for_trigger(p) /\ run_unchanged
    \/ \E p \in DOMAIN procs : pipe_read(p) /\ run_unchanged
    \/ \E p \in DOMAIN procs : pipe_spawn(p) /\ run_unchanged
    \/ \E p \in DOMAIN procs : supervisor_exit(p) /\ run_unchanged
    \/ reap_start /\ reap_frame
    \/ \E p \in DOMAIN procs : reap_waitid_child(p) /\ reap_frame
    \/ reap_waitid_err("ECHILD") /\ reap_frame

\* the steps of the host: signals, and the entrypoints' own code
TerminationHost ==
    \/ \E p \in DOMAIN procs : trigger_eintr(p) /\ run_unchanged
    \/ reap_waitid_err("EINTR") /\ reap_frame
    \/ \E p \in DOMAIN procs, n \in ChannelNames : entry_write(p, n) /\ run_unchanged
    \/ \E p \in DOMAIN procs, n \in ChannelNames : entry_send(p, n) /\ run_unchanged
    \/ \E p \in DOMAIN procs : entry_exit(p) /\ run_unchanged

TerminationNext ==
    \/ TerminationProgram
    \/ TerminationHost

TerminationSpec ==
    TerminationInit /\ [][TerminationNext]_vars /\ WF_vars(TerminationProgram)

(***************************************************************************)
(* FabricSpec: a fabric with every channel name, and any sequence of       *)
(* take_read / take_write / write calls on its pairs.  `result` is what    *)
(* the last call returned, `calls` counts the Ok returns per endpoint.     *)
(***************************************************************************)
Endpoints == {"pipe.read", "pipe.write", "socket.read", "socket.write"} \X ChannelNames

ChannelSeq == <<"x", "y">>

FabricInit ==
    /\ VoidIdle
    /\ ChildIdle
    /\ PrepIdle
    /\ BuilderIdle
    /\ MountIdle
    /\ RpcIdle
    /\ SupervisorIdle
    /\ ReapIdle
    /\ spec = <<>>
    /\ pc = "off"
    /\ next_entry = 0
    /\ procs = <<>>
    /\ chan = NoChan
    /\ result = Ok
    /\ calls = [e \in Endpoints |-> 0]
    /\ LET p == create_pipes(ChannelSeq, [pairs |-> NoPairs, fds |-> StdFds])
           k == create_sockets(ChannelSeq, [pairs |-> NoPairs, fds |-> p.fds])
       IN  /\ spawner_pipes = p.pairs
           /\ spawner_sockets = k.pairs
           /\ fds = k.fds

Returned(op, n, ret) == [op |-> op, name |-> n, ret |-> ret]

Count(ep, ret) ==
    IF ret.kind = "File" THEN [calls EXCEPT ![ep] = @ + 1] ELSE calls

fabric_pipe_take_read(n) ==
    LET r == PipePair_take_read(spawner_pipes[n])
    IN  /\ spawner_pipes' = [spawner_pipes EXCEPT ![n] = r.pair]
        /\ result' = Returned("PipePair::take_read", n, r.ret)
        /\ calls' = Count(<<"pipe.read", n>>, r.ret)
        /\ UNCHANGED <<spawner_sockets, fds>>

fabric_pipe_take_write(n) ==
    LET r == PipePair_take_write(spawner_pipes[n])
    IN  /\ spawner_pipes' = [spawner_pipes EXCEPT ![n] = r.pair]
        /\ result' = Returned("PipePair::take_write", n, r.ret)
        /\ calls' = Count(<<"pipe.write", n>>, r.ret)
        /\ UNCHANGED <<spawner_sockets, fds>>

fabric_socket_take_read(n) ==
    LET r == SocketPair_take_read(spawner_sockets[n])
    IN  /\ spawner_sockets' = [spawner_sockets EXCEPT ![n] = r.pair]
        /\ result' = Returned("SocketPair::take_read", n, r.ret)
        /\ calls' = Count(<<"socket.read", n>>, r.ret)
        /\ UNCHANGED <<spawner_pipes, fds>>

fabric_socket_write(n) ==
    LET r == SocketPair_write(spawner_sockets[n], fds)
    IN  /\ calls[<<"socket.write", "x">>] + calls[<<"socket.write", "y">>] < MaxDups
        /\ fds' = r.fds
        /\ result' = Returned("SocketPair::write", n, r.ret)
        /\ calls' = Count(<<"socket.write", n>>, r.ret)
        /\ UNCHANGED <<spawner_pipes, spawner_sockets>>

\* the caller drops a File it was given: the descriptor is closed
fabric_drop_file ==
    /\ "ret" \in DOMAIN result
    /\ result.ret.kind = "File"
    /\ result.ret.fd \in DOMAIN fds
    /\ fds' = CloseFd(fds, result.ret.fd)
    /\ result' = Returned("drop", result.name, Ok)
    /\ UNCHANGED <<spawner_pipes, spawner_sockets, calls>>

fabric_unchanged == UNCHANGED <<spec, pc, next_entry, procs, chan, void_vars, child, reap_vars,
                              unit_vars>>

FabricNext ==
    \/ \E n \in ChannelNames : fabric_pipe_take_read(n) /\ fabric_unchanged
    \/ \E n \in ChannelNames : fabric_pipe_take_write(n) /\ fabric_unchanged
    \/ \E n \in ChannelNames : fabric_socket_take_read(n) /\ fabric_unchanged
    \/ \E n \in ChannelNames : fabric_socket_write(n) /\ fabric_unchanged
    \/ fabric_drop_file /\ fabric_unchanged

FabricSpec == FabricInit /\ [][FabricNext]_vars

(***************************************************************************)
(* ArgsSpec: the argument preparation of one void.  The preparing process  *)
(* (the orchestrator for a Startup entrypoint, the trigger worker for a    *)
(* triggered one) runs the ambient phase on the entrypoint's args, clones  *)
(* the void and drops the closure; the void runs void_file_descriptors,    *)
(* the void phase and execv.                                               *)
(*   prep = [pc, mut, entrypoint, args, spawner, trigger, fabric, st,      *)
(*           child_fds, argv]                                              *)
(* `fabric` is the Spawner's fabric before the ambient phase, `st` the     *)
(* state of the preparing process, `child_fds` the fd table of the void.   *)
(***************************************************************************)
\* the endpoints an entrypoint takes: those of its trigger and of its Pipe
\* and FileSocket(Rx) args
ArgEndpoints(trigger, args) ==
    (IF trigger.type = "Startup" THEN <<>> ELSE <<<<trigger.type, "Rx", trigger.name>>>>)
    \o [i \in 1..Len(SelectSeq(args, LAMBDA a : a.type = "Pipe"
                                     \/ (a.type = "FileSocket" /\ a.end = "Rx"))) |->
          LET a == SelectSeq(args, LAMBDA b : b.type = "Pipe"
                                     \/ (b.type = "FileSocket" /\ b.end = "Rx"))[i]
          IN  <<a.type, a.end, a.name>>]

\* what validate leaves possible for one entrypoint: no endpoint twice, a
\* Trigger arg only under a Pipe or FileSocket trigger
ValidatedArgs(trigger, args) ==
    /\ ~HasDup(ArgEndpoints(trigger, args))
    /\ trigger.type = "Startup" => \A i \in 1..Len(args) : args[i].type # "Trigger"

ArgLists == UNION {[1..n -> AnyArg] : n \in 0..MaxArgs}

\* create_pipes and create_sockets for every channel name
FullFabric ==
    LET p == create_pipes(<<"x", "y">>, [pairs |-> NoPairs, fds |-> StdFds])
        k == create_sockets(<<"x", "y">>, [pairs |-> NoPairs, fds |-> p.fds])
    IN  [pipes |-> p.pairs, sockets |-> k.pairs, fds |-> k.fds]

Prep(mut, name, args, spawner, trigger, fabric, t, keep) ==
    [pc |-> "ambient", mut |-> mut, entrypoint |-> name, args |-> args,
     spawner |-> spawner, trigger |-> trigger, fabric |-> fabric,
     st |-> [pipes |-> fabric.pipes, sockets |-> fabric.sockets, fds |-> t,
             keep |-> keep, prepared |-> <<>>, err |-> Ok],
     child_fds |-> NoFds, argv |-> <<>>, written |-> ""]

\* Trigger::Startup arm of Spawner::spawn: the orchestrator, a new builder
StartupPrep(name, args, spawner) ==
    Prep(TRUE, name, args, spawner, NoPayload, FullFabric, FullFabric.fds, {})

\* the worker of a trigger on channel x after an arrival: the read end of x
\* was taken, the supervisor void kept it and the forwarded files, and the
\* builder keeps what the arrival brought
WorkerPrep(type, name, args, spawner, files, bytes) ==
    LET r == IF type = "Pipe" THEN PipePair_take_read(FullFabric.pipes["x"])
                              ELSE SocketPair_take_read(FullFabric.sockets["x"])
        fabric == [pipes |-> IF type = "Pipe"
                             THEN [FullFabric.pipes EXCEPT !["x"] = r.pair]
                             ELSE FullFabric.pipes,
                   sockets |-> IF type = "Pipe" THEN FullFabric.sockets
                               ELSE [FullFabric.sockets EXCEPT !["x"] = r.pair]]
        t == void_file_descriptors(
                 FullFabric.fds,
                 prepare_spawner(args, FullFabric.sockets) \cup {r.ret.fd}).fds
        got == Installed(t, files)
    IN  [Prep(FALSE, name, args, spawner,
              TriggerData(type, read_buf(bytes, BUFFER_SIZE), got), fabric,
              Install(t, files), Range(got))
            EXCEPT !.written = bytes]

\* n bytes of filler
RECURSIVE Filler(_)
Filler(n) ==
    IF n = 0 THEN ""
    ELSE LET h == Filler(n \div 2) IN h \o h \o (IF n % 2 = 1 THEN "a" ELSE "")

\* the records a writer sends down the trigger pipe: a short one, one that
\* fills the worker's buffer, one that is a byte longer
PipeRecords == {Record(1), Filler(BUFFER_SIZE), Filler(BUFFER_SIZE) \o "b"}

ArgsInit ==
    /\ RunIdle
    /\ VoidIdle
    /\ ChildIdle
    /\ ReapIdle
    /\ BuilderIdle
    /\ MountIdle
    /\ RpcIdle
    /\ SupervisorIdle
    /\ calls = NoFds
    /\ \E name \in {"main", "printer"}, args \in ArgLists,
          a \in {<<>>, binary_args} :
          \/ /\ ValidatedArgs([type |-> "Startup", name |-> ""], args)
             /\ prep = StartupPrep(name, args, Spawner(binary, a))
          \/ /\ ValidatedArgs([type |-> "Pipe", name |-> "x"], args)
             /\ \E record \in PipeRecords :
                   prep = WorkerPrep("Pipe", name, args, Spawner(binary, a), <<>>, record)
          \/ /\ ValidatedArgs([type |-> "FileSocket", name |-> "x"], args)
             /\ \E files \in {<<Payload>>, <<Payload, Payload>>} :
                   prep = WorkerPrep("FileSocket", name, args, Spawner(binary, a), files, "")

\* PreparedArgs::prepare_ambient_mut / prepare_ambient; on Err the args
\* prepared so far are dropped and the function returns
args_prepare_ambient ==
    /\ prep.pc = "ambient"
    /\ LET st == PreparedArgs_prepare(prep.st, prep.args, prep.mut)
       IN  prep' = IF st.err # Ok
                   THEN [prep EXCEPT !.pc = "failed", !.st = [st EXCEPT !.fds = DropPrepared(st)]]
                   ELSE [prep EXCEPT !.pc = "prepared", !.st = st]

\* builder.spawn(closure): the void starts with a copy of the fd table; in
\* the preparing process the closure is dropped with the PreparedArgs and
\* the received Files it owns
args_spawn ==
    /\ prep.pc = "prepared"
    /\ prep' = [prep EXCEPT !.pc = "cloned",
                            !.child_fds = prep.st.fds,
                            !.st.fds = CloseFds(DropPrepared(prep.st), Range(prep.trigger.fds))]

\* the void: void_file_descriptors with the builder's keep_fds
args_void ==
    /\ prep.pc = "cloned"
    /\ LET r == void_file_descriptors(prep.child_fds, prep.st.keep)
       IN  prep' = [prep EXCEPT !.pc = IF r.ok THEN "voided" ELSE "failed",
                                !.child_fds = r.fds]

\* the closure: `let args = args.prepare_void(self, name, &mut trigger)`;
\* the Files left in the trigger temporary are closed
args_prepare_void ==
    /\ prep.pc = "voided"
    /\ LET v == PreparedArgs_prepare_void(prep.st.prepared, prep.spawner, prep.entrypoint,
                    [argv |-> <<>>, trigger |-> prep.trigger])
       IN  prep' = [prep EXCEPT !.pc = "ready",
                                !.argv = v.argv,
                                !.child_fds = CloseFds(@, Range(v.trigger.fds))]

\* unistd::execv("/entrypoint", &args)
args_execv ==
    /\ prep.pc = "ready"
    /\ prep' = [prep EXCEPT !.pc = "exec", !.child_fds = execv(@)]

args_unchanged == UNCHANGED <<run_vars, calls, void_vars, child, reap_vars, builder, mnt, rpc, sup>>

ArgsNext ==
    \/ args_prepare_ambient /\ args_unchanged
    \/ args_spawn /\ args_unchanged
    \/ args_void /\ args_unchanged
    \/ args_prepare_void /\ args_unchanged
    \/ args_execv /\ args_unchanged

ArgsSpec == ArgsInit /\ [][ArgsNext]_vars

(***************************************************************************)
(* Environments and the VoidBuilder (BuilderSpec).  run() loads a          *)
(* specification of two entrypoints, forwards stdout/stderr, and the       *)
(* Spawner builds, for one of them, the voids its trigger calls for.       *)
(***************************************************************************)
\* capabilities in one entrypoint's environment
MaxEnv == 2

\* the host: its names, and the files bind mounts can name
HostNames == [hostname |-> "host", domain_name |-> "example.org"]
canonical_binary == "/usr/bin/target"
HostPaths == {canonical_binary, "/data"}
HostFs == [p \in HostPaths \cup {"/dev/null", "/proc"} |-> p]

\* PathBuf::canonicalize, the orchestrator's working directory is /usr/bin
canonicalize(p) == IF p = binary THEN canonical_binary ELSE p

\* specification.rs: Environment
Env(type, host_path, environment_path, name) ==
    [type |-> type, host_path |-> host_path,
     environment_path |-> environment_path, name |-> name]

Environment ==
    {Env("Filesystem", h, "/app", "") : h \in HostPaths}
    \cup {Env("Hostname", "", "", n) : n \in {"web", "db"}}
    \cup {Env("DomainName", "", "", "lan")}
    \cup {Env(t, "", "", "") : t \in {"Procfs", "Stdin", "Stdout", "Stderr"}}

Environments == {e \in SUBSET Environment : Cardinality(e) <= MaxEnv}

\* Arg::File(path)
FileArg(path) == [type |-> "File", end |-> "", name |-> path]

\* the orders in which iterating a HashSet can yield its elements
Orders(S) == {s \in [1..Cardinality(S) -> S] : Range(s) = S}

\* Option<String>
Some(x) == <<x>>
unwrap_or(o, d) == IF o = <<>> THEN d ELSE o[1]

\* VoidBuilder::new
VoidBuilder_new ==
    [hostname |-> <<>>, domain_name |-> <<>>, mounts |-> <<>>, fds |-> {},
     remount_proc |-> FALSE]

\* VoidBuilder::mount: HashMap::insert(src, dst)
mount(b, src, dst) == [b EXCEPT !.mounts = (src :> dst) @@ @]

set_hostname(b, name) == [b EXCEPT !.hostname = Some(name)]

set_domain_name(b, name) == [b EXCEPT !.domain_name = Some(name)]

remount_proc(b) == [b EXCEPT !.remount_proc = TRUE]

VoidBuilder_keep_fd(b, fd) == [b EXCEPT !.fds = @ \cup {fd}]

\* Spawner::mount_entrypoint
mount_entrypoint(b, bin) == mount(b, canonicalize(bin), "/entrypoint")

\* Spawner::prepare_env, one capability
prepare_env_arm(b, env) ==
    CASE env.type = "Filesystem" -> mount(b, env.host_path, env.environment_path)
      [] env.type = "Hostname" -> set_hostname(b, env.name)
      [] env.type = "DomainName" -> set_domain_name(b, env.name)
      [] env.type = "Procfs" -> remount_proc(mount(b, "/proc", "/proc"))
      [] env.type = "Stdin" -> VoidBuilder_keep_fd(b, 0)
      [] env.type = "Stdout" -> VoidBuilder_keep_fd(b, 1)
      [] env.type = "Stderr" -> VoidBuilder_keep_fd(b, 2)

\* Spawner::prepare_env over the environment in iteration order
RECURSIVE prepare_env(_, _)
prepare_env(b, environment) ==
    IF environment = <<>> THEN b
    ELSE prepare_env(prepare_env_arm(b, Head(environment)), Tail(environment))

\* Spawner::forward_mounts: every Filesystem host path and every File arg
\* path is mounted onto itself
RECURSIVE forward_mounts_args(_, _)
forward_mounts_args(b, args) ==
    IF args = <<>> THEN b
    ELSE forward_mounts_args(
            IF Head(args).type = "File" THEN mount(b, Head(args).name, Head(args).name)
                                        ELSE b,
            Tail(args))

RECURSIVE forward_mounts(_, _, _)
forward_mounts(b, environment, args) ==
    IF environment = <<>> THEN forward_mounts_args(b, args)
    ELSE forward_mounts(
            IF Head(environment).type = "Filesystem"
            THEN mount(b, Head(environment).host_path, Head(environment).host_path)
            ELSE b,
            Tail(environment), args)

\* Spawner::prepare_spawner on a builder
Spawner_prepare_spawner(b, bin, environment, args, socks) ==
    LET b1 == forward_mounts(mount_entrypoint(b, bin), environment, args)
        b2 == [b1 EXCEPT !.fds = @ \cup forward_files(args, socks)]
        b3 == remount_proc(mount(mount(b2, "/dev/null", "/dev/null"), "/proc", "/proc"))
    IN  VoidBuilder_keep_fd(VoidBuilder_keep_fd(b3, 1), 2)

\* run: `if args.stdout { .. insert(Environment::Stdout) }`, then stderr
forward_std_startup_only(s, stdout, stderr) ==
    [n \in DOMAIN s |->
        IF s[n].trigger.type # "Startup" THEN s[n]
        ELSE [s[n] EXCEPT !.environment =
                @ \cup (IF stdout THEN {Env("Stdout", "", "", "")} ELSE {})
                  \cup (IF stderr THEN {Env("Stderr", "", "", "")} ELSE {})]]
forward_std(s, stdout, stderr) ==
    [n \in DOMAIN s |->
        [s[n] EXCEPT !.environment =
            @ \cup (IF stdout THEN {Env("Stdout", "", "", "")} ELSE {})
              \cup (IF stderr THEN {Env("Stderr", "", "", "")} ELSE {})]]

\* VoidBuilder::void_mount_namespace: the bind mounts made, each source
\* resolved in the namespace the void was cloned from
MountPairs(b) ==
    {<<src, b.mounts[src]>> : src \in DOMAIN b.mounts}
    \cup (IF "/dev/null" \in DOMAIN b.mounts THEN {} ELSE {<<"/dev/null", "/dev/null">>})

\* fs::symlink_metadata(&src)? fails on a source the namespace lacks
mounts_ok(b, ns) == \A m \in MountPairs(b) : m[1] \in DOMAIN ns

void_mount_namespace(b, ns) ==
    {[src |-> ns[m[1]], dst |-> m[2]] : m \in MountPairs(b)}

\* the files a void sees: at each destination one of the mounts made there
\* (the last in HashMap iteration order), a new procfs after remount_proc
Namespaces(b, ns) ==
    LET made == void_mount_namespace(b, ns)
        dsts == {m.dst : m \in made}
    IN  {f \in [dsts -> {m.src : m \in made} \cup {"procfs"}] :
            \A d \in dsts :
                IF d = "/proc" /\ b.remount_proc THEN f[d] = "procfs"
                ELSE \E m \in made : m.dst = d /\ m.src = f[d]}

\* VoidBuilder::void_uts_namespace
void_uts_namespace_keeps_host(b) ==
    [hostname |-> unwrap_or(b.hostname, HostNames.hostname),
     domain_name |-> unwrap_or(b.domain_name, HostNames.domain_name)]
void_uts_namespace(b) ==
    [hostname |-> unwrap_or(b.hostname, "void"),
     domain_name |-> unwrap_or(b.domain_name, "(none)")]

\* the entry closures: `if self.debug { Self::stop_self(name).unwrap() }`
closure_first_never_stops(debug) == "execv"
closure_first(debug) == IF debug THEN "stop_self" ELSE "execv"

\* the specification run() loaded: `main` starts at startup and writes to
\* the channel whose read end triggers `printer`
LoadedSpec(focus, env, other, extra, type) ==
    [n \in {"main", "printer"} |->
        IF n = "main"
        THEN [trigger |-> [type |-> "Startup", name |-> ""],
              args |-> <<[type |-> type, end |-> "Tx", name |-> "x"]>>
                       \o (IF focus = n THEN extra ELSE <<>>),
              environment |-> IF focus = n THEN env ELSE other]
        ELSE [trigger |-> [type |-> type, name |-> "x"],
              args |-> IF focus = n THEN extra ELSE <<>>,
              environment |-> IF focus = n THEN env ELSE other]]

\* create_pipes / create_sockets for that specification
BuilderFabric(type) ==
    LET none == [pairs |-> NoPairs, fds |-> StdFds]
        p == IF type = "Pipe" THEN create_pipes(<<"x">>, none) ELSE none
        k == IF type = "Pipe" THEN none ELSE create_sockets(<<"x">>, none)
    IN  [pipes |-> p.pairs, sockets |-> k.pairs,
         fds |-> IF type = "Pipe" THEN p.fds ELSE k.fds]

NoVoid == [hostname |-> "", domain_name |-> "", mounts |-> {}, ns |-> <<>>, fds |-> NoFds]

BuilderInit ==
    /\ RunIdle
    /\ VoidIdle
    /\ ChildIdle
    /\ ReapIdle
    /\ PrepIdle
    /\ MountIdle
    /\ RpcIdle
    /\ SupervisorIdle
    /\ calls = NoFds
    /\ \E focus \in {"main", "printer"}, env \in Environments,
          other \in {{}}, extra \in {<<>>, <<FileArg(canonical_binary)>>},
          type \in {"Pipe", "FileSocket"}, debug \in BOOLEAN,
          stdout \in BOOLEAN, stderr \in BOOLEAN :
          builder = [pc |-> "loaded", debug |-> debug, stdout |-> stdout,
                     stderr |-> stderr,
                     loaded |-> LoadedSpec(focus, env, other, extra, type),
                     spec |-> LoadedSpec(focus, env, other, extra, type),
                     fabric |-> BuilderFabric(type),
                     entry |-> "", kind |-> "", b |-> VoidBuilder_new,
                     fds |-> NoFds, ns |-> HostFs, void |-> NoVoid, stops |-> 0]

\* run: forwarding of stdout and stderr
builder_forward ==
    /\ builder.pc = "loaded"
    /\ builder' = [builder EXCEPT
            !.pc = "forwarded",
            !.spec = forward_std(builder.spec, builder.stdout, builder.stderr)]

\* Spawner::spawn, Trigger::Startup arm up to builder.spawn
builder_startup ==
    /\ builder.pc = "forwarded"
    /\ \E n \in DOMAIN builder.spec :
          /\ builder.spec[n].trigger.type = "Startup"
          /\ \E order \in Orders(builder.spec[n].environment) :
                LET b0 == prepare_env(mount_entrypoint(VoidBuilder_new, binary), order)
                    st == PreparedArgs_prepare(
                            [pipes |-> builder.fabric.pipes,
                             sockets |-> builder.fabric.sockets,
                             fds |-> builder.fabric.fds, keep |-> b0.fds,
                             prepared |-> <<>>, err |-> Ok],
                            builder.spec[n].args, TRUE)
                IN  builder' = [builder EXCEPT
                        !.pc = IF st.err = Ok THEN "built" ELSE "failed",
                        !.entry = n, !.kind = "startup",
                        !.b = [b0 EXCEPT !.fds = st.keep],
                        !.fds = st.fds]

\* Spawner::spawn, Trigger::Pipe / Trigger::FileSocket arm up to builder.spawn
builder_supervisor ==
    /\ builder.pc = "forwarded"
    /\ \E n \in DOMAIN builder.spec :
          /\ builder.spec[n].trigger.type \in {"Pipe", "FileSocket"}
          /\ \E order \in Orders(builder.spec[n].environment) :
                LET b0 == Spawner_prepare_spawner(VoidBuilder_new, binary, order,
                              builder.spec[n].args, builder.fabric.sockets)
                    r == IF builder.spec[n].trigger.type = "Pipe"
                         THEN PipePair_take_read(builder.fabric.pipes["x"])
                         ELSE SocketPair_take_read(builder.fabric.sockets["x"])
                IN  builder' = [builder EXCEPT
                        !.pc = "built", !.entry = n, !.kind = "supervisor",
                        !.b = VoidBuilder_keep_fd(b0, r.ret.fd),
                        !.fds = builder.fabric.fds]

\* VoidBuilder::spawn in the child: the voiding sequence
builder_spawn ==
    /\ builder.pc = "built"
    /\ LET r == void_file_descriptors(builder.fds, builder.b.fds)
           uts == void_uts_namespace(builder.b)
       IN  IF mounts_ok(builder.b, builder.ns) /\ r.ok
           THEN \E ns \in Namespaces(builder.b, builder.ns) :
                   builder' = [builder EXCEPT
                       !.pc = IF builder.kind = "supervisor" THEN "serving" ELSE "voided",
                       !.void = [hostname |-> uts.hostname,
                                 domain_name |-> uts.domain_name,
                                 mounts |-> void_mount_namespace(builder.b, builder.ns),
                                 ns |-> ns, fds |-> r.fds]]
           ELSE builder' = [builder EXCEPT !.pc = "void_failed"]

\* pipe_trigger / file_socket_trigger: one arrival, up to builder.spawn in
\* the worker, which lives in the supervisor void
builder_trigger ==
    /\ builder.pc = "serving"
    /\ \E order \in Orders(builder.spec[builder.entry].environment) :
          LET files == IF builder.spec[builder.entry].trigger.type = "Pipe"
                       THEN <<>> ELSE <<Payload>>
              got == Installed(builder.void.fds, files)
              b0 == prepare_env(
                        [mount(VoidBuilder_new, "/entrypoint", "/entrypoint")
                            EXCEPT !.fds = Range(got)],
                        order)
              st == PreparedArgs_prepare(
                        [pipes |-> builder.fabric.pipes,
                         sockets |-> builder.fabric.sockets,
                         fds |-> Install(builder.void.fds, files), keep |-> b0.fds,
                         prepared |-> <<>>, err |-> Ok],
                        builder.spec[builder.entry].args, FALSE)
          IN  builder' = [builder EXCEPT
                  !.pc = IF st.err = Ok THEN "built" ELSE "failed",
                  !.kind = "triggered",
                  !.b = [b0 EXCEPT !.fds = st.keep],
                  !.fds = st.fds,
                  !.ns = builder.void.ns,
                  !.void = NoVoid]

\* Spawner::stop_self in an entry closure
builder_stop_self ==
    /\ builder.pc = "voided"
    /\ closure_first(builder.debug) = "stop_self"
    /\ builder' = [builder EXCEPT !.pc = "stopped", !.stops = @ + 1]

\* unistd::execv("/entrypoint", args) in an entry closure
builder_execv ==
    /\ \/ builder.pc = "stopped"
       \/ builder.pc = "voided" /\ closure_first(builder.debug) = "execv"
    /\ builder' = [builder EXCEPT !.pc = "exec"]

builder_unchanged == UNCHANGED <<run_vars, calls, void_vars, child, reap_vars, prep, mnt, rpc, sup>>

BuilderNext ==
    \/ builder_forward /\ builder_unchanged
    \/ builder_startup /\ builder_unchanged
    \/ builder_supervisor /\ builder_unchanged
    \/ builder_spawn /\ builder_unchanged
    \/ builder_trigger /\ builder_unchanged
    \/ builder_stop_self /\ builder_unchanged
    \/ builder_execv /\ builder_unchanged

BuilderSpec == BuilderInit /\ [][BuilderNext]_vars

(***************************************************************************)
(* VoidBuilder::void_mount_namespace, call by call (MountSpec)             *)
(***************************************************************************)
\* the calls of void_mount_namespace in program order; "bind" stands for the
\* loop over the bind mounts, "proc" is only made `if self.remount_proc`
MountCalls_detach_first ==
    <<"private", "tempdir", "tmpfs", "mkdir", "pivot_root", "chdir",
      "umount", "rmdir", "bind", "proc">>
MountCalls ==
    <<"private", "tempdir", "tmpfs", "mkdir", "pivot_root", "chdir",
      "bind", "proc", "umount", "rmdir">>

\* the call after the i-th one, "ok" after the last
mount_next(i, b) ==
    LET rest == SelectSeq(SubSeq(MountCalls, i + 1, Len(MountCalls)),
                          LAMBDA c : c # "proc" \/ b.remount_proc)
    IN  IF rest = <<>> THEN "ok" ELSE Head(rest)

CallIndex(c) == CHOOSE i \in 1..Len(MountCalls) : MountCalls[i] = c

\* `.chain(standard_dev_null ..)`: the default /dev/null comes after every
\* configured mount
DefaultDevNull(b) ==
    IF "/dev/null" \in DOMAIN b.mounts THEN {} ELSE {<<"/dev/null", "/dev/null">>}

\* what a call leaves of /old_root
old_root_after(c, old_root) ==
    CASE c = "pivot_root" -> "attached"
      [] c = "umount" -> "detached"
      [] c = "rmdir" -> "removed"
      [] OTHER -> old_root

\* the builders whose voids are cloned: an entry void, a supervisor void
MountBuilders ==
    {prepare_env(mount_entrypoint(VoidBuilder_new, binary), order) :
        order \in UNION {Orders(e) : e \in
            {x \in Environments : \A c \in x : c.type \in {"Filesystem", "Procfs"}}}}
    \cup {Spawner_prepare_spawner(VoidBuilder_new, binary, <<>>, <<>>, NoPairs)}
    \cup {mount(VoidBuilder_new, "/entrypoint", "/entrypoint")}

MountInit ==
    /\ RunIdle
    /\ VoidIdle
    /\ ChildIdle
    /\ ReapIdle
    /\ PrepIdle
    /\ BuilderIdle
    /\ RpcIdle
    /\ SupervisorIdle
    /\ calls = NoFds
    /\ \E b \in MountBuilders :
          mnt = [pc |-> MountCalls[1], b |-> b, ns |-> HostFs, todo |-> MountPairs(b),
                 log |-> <<>>, made |-> {}, proc |-> FALSE, old_root |-> "none"]

\* a call other than a bind mount: Ok, or Err returned through `?`
mount_call ==
    /\ mnt.pc \in Range(MountCalls) \ {"bind"}
    /\ \E ok \in BOOLEAN :
          mnt' = IF ok
                 THEN [mnt EXCEPT !.pc = mount_next(CallIndex(mnt.pc), mnt.b),
                                  !.log = Append(@, mnt.pc),
                                  !.proc = @ \/ mnt.pc = "proc",
                                  !.old_root = old_root_after(mnt.pc, @)]
                 ELSE [mnt EXCEPT !.pc = "err", !.log = Append(@, mnt.pc)]

\* one iteration of the bind-mount loop: the source is looked up under
\* /old_root (fs::symlink_metadata(&src)?), the target created, the mount made
mount_bind ==
    /\ mnt.pc = "bind"
    /\ \E m \in mnt.todo, ok \in BOOLEAN :
          /\ m \in DefaultDevNull(mnt.b) => mnt.todo = {m}
          /\ mnt' = IF ok /\ m[1] \in DOMAIN mnt.ns /\ mnt.old_root = "attached"
                    THEN [mnt EXCEPT
                            !.pc = IF mnt.todo = {m}
                                   THEN mount_next(CallIndex("bind"), mnt.b) ELSE "bind",
                            !.todo = @ \ {m},
                            !.log = Append(@, "bind"),
                            !.made = @ \cup {[src |-> mnt.ns[m[1]], dst |-> m[2]]}]
                    ELSE [mnt EXCEPT !.pc = "err", !.log = Append(@, "bind")]

mount_unchanged ==
    UNCHANGED <<run_vars, calls, void_vars, child, reap_vars, prep, builder, rpc, sup>>

MountNext ==
    \/ mount_call /\ mount_unchanged
    \/ mount_bind /\ mount_unchanged

MountSpec == MountInit /\ [][MountNext]_vars

(***************************************************************************)
(* fork_for_trigger: the supervisor of a trigger and the worker it forks   *)
(* (SupervisorSpec)                                                        *)
(***************************************************************************)
NoWorker == [st |-> "none", code |-> 0, reason |-> "", reads |-> 0]

SupervisorInit ==
    /\ RunIdle
    /\ VoidIdle
    /\ ChildIdle
    /\ ReapIdle
    /\ PrepIdle
    /\ BuilderIdle
    /\ MountIdle
    /\ RpcIdle
    /\ calls = NoFds
    /\ \E type \in {"Pipe", "FileSocket"} :
          sup = [pc |-> "closure", type |-> type, code |-> 0, worker |-> NoWorker,
                 looped |-> {}, reaped |-> <<>>]

\* the exit status std::process::exit gives the supervisor for what waitid
\* reported of the worker
supervisor_code_ignores_signal(worker) == WaitCode(worker.code)
supervisor_code(worker) ==
    IF worker.st = "exited" THEN WaitCode(worker.code) ELSE WaitCode(-1)

\* the supervisor closure calls pipe_trigger / file_socket_trigger, whose
\* first statement is fork_for_trigger()?; fork fails: the Err goes up to
\* the closure, which returns 1
sup_fork ==
    /\ sup.pc = "closure"
    /\ \E ok \in BOOLEAN :
          sup' = IF ok
                 THEN [sup EXCEPT !.pc = "waiting", !.worker.st = "loop"]
                 ELSE [sup EXCEPT !.pc = "exited", !.code = closure_code(Err("fork"))]

\* fork_for_trigger reaches `Ok(())` only where fork returned
\* ForkResult::Child; every arm of the parent's match ends the process
fork_for_trigger_ok(role) == role = "worker"

\* a process that got Ok(()) from fork_for_trigger: one read / recvmsg of
\* the loop
sup_worker_read ==
    /\ sup.worker.st = "loop"
    /\ sup.worker.reads < MaxRecords
    /\ \E role \in {"supervisor", "worker"} :
          /\ fork_for_trigger_ok(role)
          /\ sup' = [sup EXCEPT !.worker.st = "triggered", !.worker.reads = @ + 1,
                                !.looped = @ \cup {role}]

\* the rest of the iteration: the void is cloned, or the Err leaves the loop
sup_worker_spawn ==
    /\ sup.worker.st = "triggered"
    /\ \E ok \in BOOLEAN :
          sup' = IF ok THEN [sup EXCEPT !.worker.st = "loop"]
                 ELSE [sup EXCEPT !.worker.st = "exited", !.worker.reason = "spawn",
                                  !.worker.code = closure_code(Err("spawn"))]

\* the worker leaves its loop at the read: end of file, EINTR, another error
sup_worker_leaves ==
    /\ sup.worker.st = "loop"
    /\ \E reason \in {"eof", "EINTR", "read"} :
          sup' = [sup EXCEPT
                    !.worker.st = "exited", !.worker.reason = reason,
                    !.worker.code = closure_code(IF reason = "eof" THEN Ok
                                                 ELSE on_trigger_error(reason))]

\* the worker is terminated by a signal
sup_worker_killed ==
    /\ sup.worker.st \in {"loop", "triggered"}
    /\ sup' = [sup EXCEPT !.worker.st = "signaled"]

\* fork_for_trigger in the parent: waitid(Id::All, WEXITED) returns the
\* worker's status and the supervisor exits
sup_waitid ==
    /\ sup.pc = "waiting"
    /\ sup.worker.st \in {"exited", "signaled"}
    /\ sup' = [sup EXCEPT
                 !.pc = "exited",
                 !.code = supervisor_code(sup.worker),
                 !.reaped = Append(@, WaitStatus(IF sup.worker.st = "exited"
                                                 THEN "Exited" ELSE "Signaled",
                                                 1, sup.worker.code))]

\* waitid, blocked on the running worker, fails: `?` returns the Err from
\* fork_for_trigger and from the trigger function, the closure returns 1
sup_waitid_fails ==
    /\ sup.pc = "waiting"
    /\ sup.worker.st \in {"loop", "triggered"}
    /\ sup' = [sup EXCEPT !.pc = "exited", !.code = closure_code(Err("waitpid")),
                          !.reaped = Append(@, WaitStatus("EINTR", 0, 0))]

\* the supervisor is terminated by a signal sent from outside its void; it
\* is process 1 of its pid namespace, so the kernel kills the worker with it
sup_killed ==
    /\ sup.pc = "waiting"
    /\ sup' = [sup EXCEPT !.pc = "signaled",
                          !.worker.st = IF @ \in {"loop", "triggered"} THEN "signaled" ELSE @]

supervisor_unchanged ==
    UNCHANGED <<run_vars, calls, void_vars, child, reap_vars, prep, builder, mnt, rpc>>

SupervisorNext ==
    \/ sup_fork /\ supervisor_unchanged
    \/ sup_worker_read /\ supervisor_unchanged
    \/ sup_worker_spawn /\ supervisor_unchanged
    \/ sup_worker_leaves /\ supervisor_unchanged
    \/ sup_worker_killed /\ supervisor_unchanged
    \/ sup_waitid /\ supervisor_unchanged
    \/ sup_waitid_fails /\ supervisor_unchanged
    \/ sup_killed /\ supervisor_unchanged

SupervisorSpec == SupervisorInit /\ [][SupervisorNext]_vars

(***************************************************************************)
(* spawner/rpc.rs: the RpcHandler answers the requests a void sends on its *)
(* RPC socket, against the list of RpcSpecifications of the argument       *)
(* (RpcSpec)                                                               *)
(***************************************************************************)
\* rules in one permitted list
MaxRules == 2

\* the length of req.host.  handle_rpc is given `&buf[4..]`, the rest of the
\* whole receive buffer, and the cast to `*const OpenSocket` keeps that
\* length for the unsized field `host: [c_char]`: host spans every byte from
\* its offset to the end of the buffer and beyond, whatever was received
HostLen == 3

\* bytes: a letter, the terminator, and a byte that is not valid UTF-8
NUL == "NUL"
BAD == "0xFF"
Bytes == {"a", NUL, BAD}

\* char::REPLACEMENT_CHARACTER
REPLACEMENT == "U+FFFD"

\* enum RpcKind
RpcKind == {"OpenTcpSocket", "OpenUdpSocket"}

\* enum RpcSpecification: each field is an Option
RpcSpecification ==
    [kind : RpcKind,
     family : {<<>>, Some("Inet6")},
     port : {<<>>, Some(80)},
     host : {<<>>, Some(<<"a">>), Some(<<"a", "a">>)}]

\* struct OpenSocket as the handler sees it, with the RpcKind before it
OpenSocket ==
    [kind : RpcKind, family : {"Inet", "Inet6"}, port : {80, 443},
     host : [1..HostLen -> Bytes]]

PermittedLists == UNION {[1..n -> RpcSpecification] : n \in 0..MaxRules}

\* CStr::from_bytes_with_nul: the first nul byte has to be the last byte of
\* the slice
from_bytes_with_nul(bytes) ==
    LET nuls == {i \in DOMAIN bytes : bytes[i] = NUL}
    IN  IF nuls # {} /\ \A i \in nuls : i = Len(bytes)
        THEN [ok |-> TRUE, bytes |-> SubSeq(bytes, 1, Len(bytes) - 1)]
        ELSE [ok |-> FALSE, bytes |-> <<>>]

\* CStr::to_string_lossy: invalid UTF-8 becomes U+FFFD
to_string_lossy(bytes) == [i \in DOMAIN bytes |-> IF bytes[i] = BAD THEN REPLACEMENT ELSE bytes[i]]

\* CStr::to_str: Err on invalid UTF-8
to_str(bytes) == [ok |-> BAD \notin Range(bytes), str |-> bytes]

\* Result<bool, RpcError>
OkBool(b) == [kind |-> "Ok", value |-> b, error |-> ""]
ErrRpc(e) == [kind |-> "Err", value |-> FALSE, error |-> e]

\* the three `allowed &=` of one rule; `?` on the host's CStr leaves the
\* function whatever `allowed` is by then
rule_allows(each, req) ==
    LET family == each.family = <<>> \/ each.family[1] = req.family
        port == each.port = <<>> \/ each.port[1] = req.port
        host == from_bytes_with_nul(req.host)
    IN  IF each.host # <<>> /\ ~host.ok THEN ErrRpc("BadlyFormedRequest")
        ELSE OkBool(/\ family
                    /\ port
                    /\ (each.host = <<>> \/ to_string_lossy(host.bytes) = each.host[1]))

\* validate_open_tcp_socket / validate_open_udp_socket: the loop over
\* permitted_rpcs, `if let RpcSpecification::<kind> { .. } = each`
RECURSIVE validate_open_socket(_, _, _)
validate_open_socket(kind, permitted_rpcs, req) ==
    IF permitted_rpcs = <<>> THEN OkBool(FALSE)
    ELSE LET each == Head(permitted_rpcs)
         IN  IF each.kind # kind
             THEN validate_open_socket(kind, Tail(permitted_rpcs), req)
             ELSE IF rule_allows(each, req).kind = "Err" THEN rule_allows(each, req)
             ELSE IF rule_allows(each, req).value THEN OkBool(TRUE)
             ELSE validate_open_socket(kind, Tail(permitted_rpcs), req)

validate_open_tcp_socket(permitted_rpcs, req) ==
    validate_open_socket("OpenTcpSocket", permitted_rpcs, req)

validate_open_udp_socket(permitted_rpcs, req) ==
    validate_open_socket("OpenUdpSocket", permitted_rpcs, req)

\* enum RpcResult, and whether a socket was created on the way to it
RpcResult(type, error, opened) == [type |-> type, error |-> error, opened |-> opened]

RpcError(e) == RpcResult("Error", e, FALSE)

\* handle_open_tcp_socket / handle_open_udp_socket: every result the host
\* allows; connect (and bind) can fail with an errno
handle_open_socket(kind, req) ==
    LET host == from_bytes_with_nul(req.host)
    IN  IF ~host.ok \/ ~to_str(host.bytes).ok THEN {RpcError("BadlyFormedRequest")}
        ELSE {RpcResult(kind, "", TRUE), RpcResult("Error", "Io", TRUE), RpcError("Io")}

\* handle_rpc: every RpcResult it can return for the request
handle_rpc(permitted_rpcs, req) ==
    LET v == IF req.kind = "OpenTcpSocket" THEN validate_open_tcp_socket(permitted_rpcs, req)
             ELSE validate_open_udp_socket(permitted_rpcs, req)
    IN  IF v.kind = "Err" THEN {RpcError(v.error)}
        ELSE IF ~v.value THEN {RpcError("OperationNotPermitted")}
        ELSE handle_open_socket(req.kind, req)

NoRequest == [kind |-> "None"]

NoResult == RpcResult("None", "", FALSE)

\* RpcHandler::new
RpcInit ==
    /\ RunIdle
    /\ VoidIdle
    /\ ChildIdle
    /\ ReapIdle
    /\ PrepIdle
    /\ BuilderIdle
    /\ MountIdle
    /\ SupervisorIdle
    /\ calls = NoFds
    /\ \E permitted \in PermittedLists :
          rpc = [pc |-> "recv", permitted_rpcs |-> permitted, req |-> NoRequest,
                 resp |-> NoResult]

\* RpcHandler::handle: recv returns a message of at least 4 bytes, a request
rpc_recv ==
    /\ rpc.pc = "recv"
    /\ \E req \in OpenSocket :
          rpc' = [rpc EXCEPT !.pc = "handle_rpc", !.req = req, !.resp = NoResult]

\* recv returns a message of fewer than 4 bytes: `continue`, nothing is sent
rpc_too_short ==
    /\ rpc.pc = "recv"
    /\ rpc' = [rpc EXCEPT !.resp = NoResult]

\* the rest of the iteration: handle_rpc answers the request, the answer is
\* sent (sendmsg with the socket, if any, then send) and the loop goes on;
\* resp is the answer last sent
rpc_answer ==
    /\ rpc.pc = "handle_rpc"
    /\ \E resp \in handle_rpc(rpc.permitted_rpcs, rpc.req) :
          rpc' = [rpc EXCEPT !.pc = "recv", !.req = NoRequest, !.resp = resp]

\* recv, sendmsg or send fails: handle returns the Err
rpc_io_fails ==
    /\ rpc.pc \in {"recv", "handle_rpc"}
    /\ rpc' = [rpc EXCEPT !.pc = "returned"]

rpc_unchanged ==
    UNCHANGED <<run_vars, calls, void_vars, child, reap_vars, prep, builder, mnt, sup>>

RpcNext ==
    \/ rpc_recv /\ rpc_unchanged
    \/ rpc_answer /\ rpc_unchanged
    \/ rpc_too_short /\ rpc_unchanged
    \/ rpc_io_fails /\ rpc_unchanged

RpcSpec == RpcInit /\ [][RpcNext]_vars

(***************************************************************************)
(* Properties of validation and of run (Spec)                              *)
(***************************************************************************)
\* references to channel n, counted on the specification itself
TriggerCount(s, type, n) ==
    Cardinality({i \in DOMAIN s : s[i].trigger = [type |-> type, name |-> n]})

ArgCount(s, type, end, n) ==
    Cardinality({<<i, j>> \in (DOMAIN s) \X (1..MaxArgs + 1) :
        j <= Len(s[i].args) /\ s[i].args[j] = [type |-> type, end |-> end, name |-> n]})

Readers(s, type, n) == TriggerCount(s, type, n) + ArgCount(s, type, "Rx", n)
Writers(s, type, n) == ArgCount(s, type, "Tx", n)
Referenced(s, type, n) == Readers(s, type, n) + Writers(s, type, n) > 0

PipeViolates(s, n) ==
    Referenced(s, "Pipe", n) /\ ~(Readers(s, "Pipe", n) = 1 /\ Writers(s, "Pipe", n) = 1)
SocketViolates(s, n) ==
    Referenced(s, "FileSocket", n)
        /\ ~(Readers(s, "FileSocket", n) = 1 /\ Writers(s, "FileSocket", n) >= 1)
StartupHasTriggerArg(s) ==
    \E i \in DOMAIN s : s[i].trigger.type = "Startup" /\ ArgTrigger \in Range(s[i].args)

PipesMatched(s) == \A n \in ChannelNames : ~PipeViolates(s, n)
SocketsMatched(s) == \A n \in ChannelNames : ~SocketViolates(s, n)

\* run has returned from `spec.validate()?` with an Err / has gone past it
Rejected == pc = "done" /\ next_entry = 0
Accepted == pc # "start" /\ ~Rejected

\* C1: validate accepts only specifications in which every referenced pipe
\* has exactly one reader (trigger or Rx arg) and exactly one writer; any
\* other specification is rejected with BadPipe carrying a violating name.
C1_PipesExactlyOnce ==
    /\ Accepted => PipesMatched(spec)
    /\ (pc # "start" /\ ~PipesMatched(spec)) =>
          Rejected /\ result.kind = "BadPipe" /\ PipeViolates(spec, result.name)

C1_Witness ==
    /\ Rejected
    /\ result = BadPipe("y")
    /\ Readers(spec, "Pipe", "x") = 1 /\ Writers(spec, "Pipe", "x") = 1
    /\ TriggerCount(spec, "Pipe", "y") = 1 /\ ArgCount(spec, "Pipe", "Rx", "y") = 1

C1_WitnessAccepted ==
    pc = "fabric" /\ TriggerCount(spec, "Pipe", "x") = 1 /\ Writers(spec, "Pipe", "x") = 1

\* C2 as stated: any socket with two readers, a reader and no writer, or a
\* writer and no reader makes validate return BadFileSocket with that name.
C2_AsStated ==
    \A n \in ChannelNames :
        (pc # "start" /\ SocketViolates(spec, n)) =>
            Rejected /\ result = BadFileSocket(n)

\* C2 amended: validate accepts only specifications in which every
\* referenced socket has exactly one reader and at least one writer, and
\* repeated writers do not make it reject; a specification with a violating
\* socket is rejected, with BadPipe when a pipe violates too and otherwise
\* with BadFileSocket carrying the name of a violating socket.
C2_SocketsOneReader ==
    /\ Accepted => SocketsMatched(spec)
    /\ (pc # "start" /\ ~SocketsMatched(spec)) =>
          /\ Rejected
          /\ IF PipesMatched(spec)
             THEN result.kind = "BadFileSocket" /\ SocketViolates(spec, result.name)
             ELSE result.kind = "BadPipe"
    /\ (pc # "start" /\ PipesMatched(spec) /\ SocketsMatched(spec)
            /\ ~StartupHasTriggerArg(spec)) => Accepted

C2_Witness ==
    /\ pc = "fabric"
    /\ Readers(spec, "FileSocket", "x") = 1
    /\ Writers(spec, "FileSocket", "x") = 2

C2_WitnessRejected ==
    /\ Rejected
    /\ result = BadFileSocket("y")
    /\ Readers(spec, "FileSocket", "y") = 0 /\ Writers(spec, "FileSocket", "y") = 1

\* C3 as stated: a Startup entrypoint with Arg::Trigger always makes
\* validate return BadTriggerArgument.
C3_AsStated ==
    (pc # "start" /\ StartupHasTriggerArg(spec)) =>
        Rejected /\ result = BadTriggerArgument

\* C3 amended: a Startup entrypoint with Arg::Trigger always makes validate
\* return an error, which is BadTriggerArgument when the pipe and socket
\* checks pass (otherwise the BadPipe or BadFileSocket of the earlier
\* check); Arg::Trigger in a Pipe- or FileSocket-triggered entrypoint is no
\* error.
C3_TriggerArgNeedsTrigger ==
    /\ (pc # "start" /\ StartupHasTriggerArg(spec)) =>
          /\ Rejected
          /\ (PipesMatched(spec) /\ SocketsMatched(spec)) => result = BadTriggerArgument
          /\ ~PipesMatched(spec) => result.kind = "BadPipe"
          /\ (PipesMatched(spec) /\ ~SocketsMatched(spec)) => result.kind = "BadFileSocket"
    /\ (pc # "start" /\ ~StartupHasTriggerArg(spec)
            /\ PipesMatched(spec) /\ SocketsMatched(spec)) => Accepted

C3_Witness ==
    /\ Rejected
    /\ result = BadTriggerArgument
    /\ StartupHasTriggerArg(spec)

C3_WitnessAccepted ==
    /\ pc = "fabric"
    /\ \E i \in DOMAIN spec :
          spec[i].trigger.type = "Pipe" /\ ArgTrigger \in Range(spec[i].args)

Invalid(s) == ~PipesMatched(s) \/ ~SocketsMatched(s) \/ StartupHasTriggerArg(s)

NothingSpawned ==
    /\ procs = <<>>
    /\ fds = StdFds
    /\ spawner_pipes = NoPairs
    /\ spawner_sockets = NoPairs
    /\ chan = NoChan

\* C4: when validation fails run returns the validation error and nothing
\* is spawned: no pipe, no socketpair and no void exists when run returns
\* (nor before); two entrypoints that both read pipe x, and no other fault,
\* give BadPipe("x").
C4_InvalidSpawnsNothing ==
    Invalid(spec) =>
        /\ NothingSpawned
        /\ pc \in {"start", "done"}
        /\ pc = "done" =>
              /\ result.kind \in {"BadPipe", "BadFileSocket", "BadTriggerArgument"}
              /\ (/\ \A i \in DOMAIN spec : Reads(<<spec[i]>>, "Pipe") = <<"x">>
                  /\ ~Referenced(spec, "Pipe", "y")) => result = BadPipe("x")

C4_Witness ==
    /\ pc = "done"
    /\ NothingSpawned
    /\ result = BadPipe("x")
    /\ \A i \in DOMAIN spec : ArgCount(<<spec[i]>>, "Pipe", "Rx", "x") = 1

\* a pipe end or the read end of a socket
IsEndpoint(obj) == obj.kind = "pipe" \/ (obj.kind = "socket" /\ obj.end = "read")

\* C5: when Spawner::spawn has returned Ok the orchestrator holds no read or
\* write end of any pipe and no read end of any socket: every such endpoint
\* was handed to a void.
C5_ParentHoldsNoEndpoint ==
    pc = "spawned" => \A f \in DOMAIN fds : ~IsEndpoint(fds[f].obj)

\* the file an arg of an entrypoint grants
Grants(arg, obj) ==
    \/ arg.type = "Pipe" /\ obj = File("pipe", arg.name, IF arg.end = "Rx" THEN "read" ELSE "write")
    \/ arg.type = "FileSocket"
        /\ obj = File("socket", arg.name, IF arg.end = "Rx" THEN "read" ELSE "write")
    \/ arg.type = "File" /\ obj = File("file", "", "")

Granted(proc, obj) ==
    \/ \E a \in Range(spec[proc.entry].args) : Grants(a, obj)
    \/ proc.payload.type = "FileSocket" /\ obj.kind = "payload"

\* the read end of the channel that triggers the entrypoint of a process
TriggerEnd(proc) ==
    File(IF spec[proc.entry].trigger.type = "Pipe" THEN "pipe" ELSE "socket",
         spec[proc.entry].trigger.name, "read")

\* the received descriptors that no Trigger arg publishes: the TriggerData
\* still owns them when it is dropped
Unpublished(proc) ==
    IF \E a \in Range(spec[proc.entry].args) : a.type = "Trigger"
    THEN {} ELSE Range(proc.payload.fds)

\* C7 as stated: a process that execs an entrypoint has, from descriptor 3
\* up, exactly the descriptors registered with keep_fd for its void, each one
\* a file its own args or its own trigger payload grant; it holds no other
\* pipe or socket endpoint and not the read end of its trigger channel.
C7_AsStated ==
    \A p \in DOMAIN procs :
        (procs[p].kind = "entry" /\ procs[p].st \in {"voided", "exec"}) =>
            /\ {f \in DOMAIN procs[p].fds : f >= 3} = {f \in procs[p].keep : f >= 3}
            /\ \A f \in DOMAIN procs[p].fds :
                  f >= 3 => Granted(procs[p], procs[p].fds[f].obj)
            /\ \A f \in DOMAIN procs[p].fds : procs[p].fds[f].obj # TriggerEnd(procs[p])

\* C7 (amended): a process that execs an entrypoint has, from descriptor 3
\* up, only descriptors registered with keep_fd for its void, each one a
\* file its own args or its own trigger payload grant: all of them when the
\* voiding ends, and at execv all but the received descriptors that no
\* Trigger arg publishes.  It holds no other pipe or socket endpoint and not
\* the read end of its trigger channel.
C7_OnlyGrantedFds ==
    \A p \in DOMAIN procs :
        (procs[p].kind = "entry" /\ procs[p].st \in {"voided", "exec"}) =>
            /\ {f \in DOMAIN procs[p].fds : f >= 3} =
                  {f \in procs[p].keep : f >= 3} \
                      (IF procs[p].st = "exec" THEN Unpublished(procs[p]) ELSE {})
            /\ \A f \in DOMAIN procs[p].fds :
                  f >= 3 => Granted(procs[p], procs[p].fds[f].obj)
            /\ \A f \in DOMAIN procs[p].fds : procs[p].fds[f].obj # TriggerEnd(procs[p])

C7_Witness ==
    \E p, q \in DOMAIN procs :
        /\ procs[p].kind = "entry" /\ procs[p].st = "exec" /\ procs[p].parent # 0
        /\ \E f \in DOMAIN procs[p].fds : f >= 3
        /\ procs[procs[p].parent].trigfd \in DOMAIN procs[procs[p].parent].fds
        /\ procs[q].kind = "entry" /\ procs[q].st = "exec" /\ procs[q].parent = 0
        /\ \E f \in DOMAIN procs[q].fds : f >= 3 /\ procs[q].fds[f].obj.kind \in {"pipe", "socket"}

(***************************************************************************)
(* Properties of the fabric (FabricSpec)                                   *)
(***************************************************************************)
TakeCall(op, ep, err, pair, pair2, end) ==
    /\ result'.op = op
    /\ result'.name = pair.name
    => IF pair[end] # None
       THEN /\ result'.ret = OkFile(pair[end])
            /\ pair2 = [pair EXCEPT ![end] = None]
            /\ calls[ep] = 0
            /\ calls'[ep] = 1
       ELSE /\ result'.ret = err
            /\ pair2 = pair
            /\ calls' = calls
            /\ fds' = fds

\* C6: over any sequence of calls, take_read and take_write of a PipePair
\* and take_read of a SocketPair return the endpoint on the first call and
\* BadPipe(name) (BadFileSocket(name)) on every later one, which leaves the
\* pair unchanged, so each succeeds at most once; every SocketPair::write
\* returns a descriptor that was not open before, refers to the socket's
\* write end, and leaves the pair and its write end as they were.
C6_TakeAtMostOnce ==
    [][\A n \in ChannelNames :
        /\ TakeCall("PipePair::take_read", <<"pipe.read", n>>, BadPipe(n),
                    spawner_pipes[n], spawner_pipes'[n], "read")
        /\ TakeCall("PipePair::take_write", <<"pipe.write", n>>, BadPipe(n),
                    spawner_pipes[n], spawner_pipes'[n], "write")
        /\ TakeCall("SocketPair::take_read", <<"socket.read", n>>, BadFileSocket(n),
                    spawner_sockets[n], spawner_sockets'[n], "read")
        /\ (result'.op = "SocketPair::write" /\ result'.name = n) =>
              /\ result'.ret.kind = "File"
              /\ result'.ret.fd \notin DOMAIN fds
              /\ fds'[result'.ret.fd].obj = File("socket", n, "write")
              /\ spawner_sockets' = spawner_sockets
              /\ fds'[spawner_sockets[n].write] = fds[spawner_sockets[n].write]
        /\ calls'[<<"pipe.read", n>>] <= 1
        /\ calls'[<<"pipe.write", n>>] <= 1
        /\ calls'[<<"socket.read", n>>] <= 1
    ]_vars

C6_Witness ==
    /\ calls[<<"pipe.read", "x">>] = 1
    /\ calls[<<"pipe.write", "x">>] = 1
    /\ calls[<<"socket.read", "x">>] = 1
    /\ calls[<<"socket.write", "x">>] = 2
    /\ result = Returned("PipePair::take_read", "x", BadPipe("x"))

(***************************************************************************)
(* Properties of file-descriptor voiding (VoidSpec)                        *)
(***************************************************************************)
\* C8: once voiding has completed in the child, every open descriptor
\* numbered 3 or more is one of the builder's keep_fds, whatever the cloning
\* process had open.
C8_OnlyKeptFdsOpen ==
    vpc = "done" => \A f \in DOMAIN vfds : f >= 3 => f \in vkeep

C8_Witness ==
    /\ vpc = "done"
    /\ \E f \in DOMAIN vinherited : f >= 3 /\ f \notin vkeep
    /\ \E f \in DOMAIN vfds : f >= 3
    /\ {0, 1, 2} \ vkeep # {}

\* C9: once voiding has completed, every descriptor in keep_fds is open and
\* has FD_CLOEXEC clear, whether or not the flag was set when it was inherited.
C9_KeptFdsSurviveExec ==
    vpc = "done" => \A f \in vkeep : f \in DOMAIN vfds /\ ~vfds[f].cloexec

C9_Witness ==
    /\ vpc = "done"
    /\ \E f \in vkeep : f >= 3 /\ vinherited[f].cloexec
    /\ \E f \in vkeep : f < 3 /\ vinherited[f].cloexec

\* C10: voiding never closes fd 0, 1 or 2: they are open at every step, and
\* when the function is over each one outside keep_fds refers to /dev/null
\* and each one in keep_fds still refers to the file it inherited.
C10_StdFdsNeverClosed ==
    /\ vpc \notin {"off", "build"} => {0, 1, 2} \subseteq DOMAIN vfds
    /\ vpc \in {"done", "failed"} =>
          \A f \in {0, 1, 2} :
              vfds[f].obj = (IF f \in vkeep THEN vinherited[f].obj ELSE DevNull)

C10_Witness ==
    /\ vpc = "done"
    /\ {0, 1, 2} \cap vkeep # {}
    /\ {0, 1, 2} \ vkeep # {}
    /\ \A f \in {0, 1, 2} \ vkeep : vfds[f].obj = DevNull

NamedSteps == <<"signal", "user", "mount", "fds", "uts">>

IsNamedStep(s) == s \in Range(NamedSteps)

IsPrefix(a, b) == Len(a) <= Len(b) /\ \A i \in 1..Len(a) : a[i] = b[i]

\* C12: the calls completed in a child are, in this order, ignore SIGHUP,
\* user namespace, mount namespace, file descriptors, UTS names; the entry
\* closure has run (or execv has happened) only when all five have
\* succeeded.
C12_VoidingOrder ==
    /\ IsPrefix(SelectSeq(child.done, IsNamedStep), NamedSteps)
    /\ (child.ran \/ child.pc = "exec") =>
          /\ SelectSeq(child.done, IsNamedStep) = NamedSteps
          /\ child.failed = ""

C12_Witness ==
    /\ child.pc = "exec"
    /\ child.ran
    /\ Len(child.done) = 9
    /\ \E f \in vkeep : f >= 3 /\ vinherited[f].cloexec

(***************************************************************************)
(* Properties of run after Spawner::spawn (ReapSpec)                       *)
(***************************************************************************)
\* the first non-OK exit code among the statuses waitid reported, else 0
RECURSIVE FirstNonOk(_)
FirstNonOk(seq) ==
    IF seq = <<>> THEN 0
    ELSE IF Head(seq).kind = "Exited" /\ Head(seq).code # 0 THEN Head(seq).code
    ELSE FirstNonOk(Tail(seq))

\* C13: in non-daemon mode the exit code run returns is the first non-OK
\* exit code among the reaped children, in the order waitid reported them,
\* and 0 if every child exited with 0.
C13_FirstNonOkCode ==
    (pc = "done" /\ ~daemon /\ result.kind = "Ok") => result.code = FirstNonOk(reaped)

\* C14: an EINTR from waitid in the reap loop is ignored: run does not
\* return an error, it returns only after waitid has reported ECHILD.
C14_EintrIgnored ==
    /\ (\E i \in 1..Len(reaped) : reaped[i].kind = "EINTR") =>
          ~(pc = "done" /\ result.kind # "Ok")
    /\ (pc = "done" /\ ~daemon) =>
          result.kind = "Ok" /\ reaped[Len(reaped)].kind = "ECHILD"

\* C15: with daemon set run goes from the end of Spawner::spawn straight to
\* returning Ok(0): it never enters the reap loop, never calls waitid and
\* reaps no child.
C15_DaemonReturnsAtOnce ==
    daemon =>
        /\ pc \in {"after_spawn", "done"}
        /\ reaped = <<>>
        /\ \A c \in DOMAIN children : children[c].st # "reaped"
        /\ pc = "done" => result = OkCode(0)

C15_Witness ==
    /\ daemon
    /\ pc = "done"
    /\ result = OkCode(0)
    /\ \E c, d \in DOMAIN children :
          children[c].st = "running" /\ children[d].st = "exited" /\ children[d].code # 0

(***************************************************************************)
(* Properties of the trigger workers (Spec)                                *)
(***************************************************************************)
IsWorker(w, type) ==
    procs[w].kind = "worker" /\ spec[procs[w].entry].trigger.type = type

\* the channel a trigger worker reads
TriggerChan(w) == <<spec[procs[w].entry].trigger.type, spec[procs[w].entry].trigger.name>>

\* the voids worker w has cloned, oldest first
ChildrenOf(w) == SelectSeq([i \in DOMAIN procs |-> i], LAMBDA c : procs[c].parent = w /\ procs[c].kind = "entry")

\* the record each of them was cloned for
ChildRecords(w) == [i \in DOMAIN ChildrenOf(w) |-> procs[ChildrenOf(w)[i]].payload.bytes]

\* a void that reached execv: in the model only the target binary exits 0
Execd(c) == procs[c].st = "exec" \/ (procs[c].st = "exited" /\ procs[c].code = 0)

Settled(c) == procs[c].st \in {"exec", "exited"}

RecordsRead(w) == Len(chan[TriggerChan(w)].log) - Len(chan[TriggerChan(w)].queue)

\* C17: whenever a pipe trigger worker reads a record, it has cloned a void
\* for every record it read before: the void of the k-th arrival exists
\* before the bytes of the (k+1)-th are read.
C17_SpawnBeforeNextRead ==
    [][\A w \in DOMAIN procs :
          (IsWorker(w, "Pipe")
           /\ Len(chan'[TriggerChan(w)].queue) < Len(chan[TriggerChan(w)].queue)) =>
              Len(ChildrenOf(w)) = RecordsRead(w)]_vars

C17_Witness ==
    \E w \in DOMAIN procs :
        /\ IsWorker(w, "Pipe")
        /\ RecordsRead(w) = 2
        /\ procs[w].st = "triggered"
        /\ Len(ChildrenOf(w)) = 1

\* C18: a trigger worker that reads end-of-file from its pipe, or whose read
\* or recvmsg returns EINTR, leaves its loop in that step without cloning a
\* void and exits with status 0.
C18_CleanEnd ==
    [][\A w \in DOMAIN procs :
          (procs[w].kind = "worker" /\ procs[w].reason = ""
           /\ procs'[w].reason \in {"eof", "eintr"}) =>
              /\ Len(procs') = Len(procs)
              /\ procs'[w].st = "exited"
              /\ procs'[w].code = 0]_vars

C18_Witness ==
    \E w, v \in DOMAIN procs :
        /\ IsWorker(w, "Pipe") /\ procs[w].reason = "eof" /\ procs[w].code = 0
        /\ IsWorker(v, "FileSocket") /\ procs[v].reason = "eintr" /\ procs[v].code = 0

\* the datagrams a file-socket trigger worker has received
Received(w) ==
    SubSeq(chan[TriggerChan(w)].log, 1,
           Len(chan[TriggerChan(w)].log) - Len(chan[TriggerChan(w)].queue))

\* how many of them carried an SCM_RIGHTS control message
RightsReceived(w) == Len(SelectSeq(Received(w), LAMBDA d : d.rights))

HasTriggerArg(e) == \E a \in Range(e.args) : a.type = "Trigger"

AtRest(w) == procs[w].st \in {"loop", "exited"}

ArgvBuilt == prep.pc \in {"ready", "exec"}

\* the open file an arg stands for
ArgFile(a) ==
    CASE a.type = "Pipe" -> File("pipe", a.name, IF a.end = "Rx" THEN "read" ELSE "write")
      [] a.type = "FileSocket" -> File("socket", a.name, IF a.end = "Rx" THEN "read" ELSE "write")
      [] a.type = "File" -> File("file", "", "")
      [] a.type = "TcpListener" -> File("listener", "", "")
      [] OTHER -> DevNull

IsFdArg(a) == a.type \in {"Pipe", "FileSocket", "File", "TcpListener"}

\* the strings the i-th arg stands for when it is not Arg::Trigger
ArgStrings(i) ==
    CASE prep.args[i].type = "BinaryName" -> <<prep.spawner.binary>>
      [] prep.args[i].type = "Entrypoint" -> <<prep.entrypoint>>
      [] prep.args[i].type = "Trailing" -> prep.spawner.binary_args
      [] OTHER -> <<ToString(prep.st.prepared[i].fd)>>

\* argv from position pos on is what the args from the i-th on stand for,
\* a Trigger arg standing for any number of entries
RECURSIVE ArgvMatches(_, _)
ArgvMatches(i, pos) ==
    IF i > Len(prep.args) THEN pos = Len(prep.argv) + 1
    ELSE IF prep.args[i].type = "Trigger"
    THEN \E k \in 0..(Len(prep.argv) + 1 - pos) : ArgvMatches(i + 1, pos + k)
    ELSE /\ pos + Len(ArgStrings(i)) - 1 <= Len(prep.argv)
         /\ SubSeq(prep.argv, pos, pos + Len(ArgStrings(i)) - 1) = ArgStrings(i)
         /\ ArgvMatches(i + 1, pos + Len(ArgStrings(i)))

\* C21: the argv given to execv is the concatenation, in the order of the
\* args, of what each arg stands for: the binary path for BinaryName, the
\* entrypoint's name for Entrypoint, the pass-through arguments in order for
\* Trailing, and for each File, Pipe, FileSocket or TcpListener one decimal
\* number, that of a descriptor the void holds open on that file.
C21_ArgvInOrder ==
    ArgvBuilt =>
        /\ ArgvMatches(1, 1)
        /\ \A i \in 1..Len(prep.args) :
              IsFdArg(prep.args[i]) =>
                  /\ prep.st.prepared[i].fd \in DOMAIN prep.child_fds
                  /\ prep.child_fds[prep.st.prepared[i].fd].obj = ArgFile(prep.args[i])

C21_Witness ==
    /\ prep.pc = "exec"
    /\ prep.entrypoint = "main"
    /\ prep.args = <<[type |-> "BinaryName", end |-> "", name |-> ""],
                     [type |-> "Entrypoint", end |-> "", name |-> ""]>>
    /\ prep.argv = <<binary, "main">>

\* what the trigger payload stands for: the bytes read from the pipe, or
\* the decimal number of every descriptor received
TriggerStrings ==
    IF prep.trigger.type = "Pipe" THEN <<prep.trigger.bytes>>
    ELSE [j \in 1..Len(prep.trigger.fds) |-> ToString(prep.trigger.fds[j])]

RECURSIVE FullArgv(_)
FullArgv(i) ==
    IF i > Len(prep.args) THEN <<>>
    ELSE (IF prep.args[i].type = "Trigger" THEN TriggerStrings ELSE ArgStrings(i))
         \o FullArgv(i + 1)

\* C22: in the argv of a triggered entrypoint every Trigger arg stands for
\* the bytes read from the pipe as one entry (Pipe trigger) or for one
\* decimal number per descriptor received (FileSocket trigger).
C22_EveryTriggerArgExpands ==
    (ArgvBuilt /\ ~prep.mut) => prep.argv = FullArgv(1)

\* the field of a pair that holds the end an arg names
EndOf(a) == IF a.end = "Rx" THEN "read" ELSE "write"

\* the i-th arg took its endpoint out of the fabric and registered it
TookEndpoint(i) ==
    LET a == prep.args[i]
        before == IF a.type = "Pipe" THEN prep.fabric.pipes ELSE prep.fabric.sockets
        after == IF a.type = "Pipe" THEN prep.st.pipes ELSE prep.st.sockets
    IN  /\ before[a.name][EndOf(a)] \in prep.st.keep
        /\ after[a.name][EndOf(a)] = None

\* the i-th arg registered a duplicate of the shared write end
KeptDuplicate(i) ==
    /\ i \in DOMAIN prep.st.prepared
    /\ prep.st.prepared[i].fd \in prep.st.keep
    /\ prep.st.prepared[i].fd # prep.fabric.sockets[prep.args[i].name].write
    /\ prep.st.sockets[prep.args[i].name].write = prep.fabric.sockets[prep.args[i].name].write

\* C23: after the ambient phase of any entrypoint, Startup or triggered,
\* every Pipe and FileSocket(Rx) arg has taken its endpoint out of the
\* fabric into keep_fds, every FileSocket(Tx) arg has a duplicate of the
\* shared write end in keep_fds, and keep_fds holds nothing else new.
C23_AmbientTakesAndKeeps ==
    prep.pc # "ambient" =>
        /\ \A i \in 1..Len(prep.args) :
              /\ (prep.args[i].type = "Pipe"
                    \/ (prep.args[i].type = "FileSocket" /\ prep.args[i].end = "Rx")) =>
                       TookEndpoint(i)
              /\ (prep.args[i].type = "FileSocket" /\ prep.args[i].end = "Tx") =>
                       KeptDuplicate(i)
        /\ Cardinality(prep.st.keep) =
              Len(prep.trigger.fds) + Len(SelectSeq(prep.args, IsFdArg))

\* the preparing process has called VoidBuilder::spawn and it returned
AfterSpawn == prep.pc \in {"cloned", "voided", "ready", "exec"}

\* the i-th arg is a listener or a file opened with ambient authority
OpenedAmbient(i) == prep.args[i].type \in {"TcpListener", "File"}

\* C25: for a Startup entrypoint with a TcpListener (or File) arg, once
\* VoidBuilder::spawn has returned the orchestrator no longer has the
\* descriptor open, and the process that execs holds it open under the
\* number its argv publishes in decimal.
C25_ListenerHandedOver ==
    prep.mut =>
        \A i \in 1..Len(prep.args) : OpenedAmbient(i) =>
            /\ AfterSpawn =>
                  /\ prep.st.prepared[i].fd \notin DOMAIN prep.st.fds
                  /\ \A f \in DOMAIN prep.st.fds :
                        prep.st.fds[f].obj # ArgFile(prep.args[i])
            /\ prep.pc = "exec" =>
                  /\ prep.st.prepared[i].fd \in DOMAIN prep.child_fds
                  /\ prep.child_fds[prep.st.prepared[i].fd].obj = ArgFile(prep.args[i])
                  /\ ToString(prep.st.prepared[i].fd) \in Range(prep.argv)

C25_Witness ==
    /\ prep.mut
    /\ prep.pc = "exec"
    /\ \E i \in 1..Len(prep.args) :
          /\ prep.args[i].type = "TcpListener"
          /\ prep.st.prepared[i].fd \in DOMAIN prep.child_fds
          /\ prep.st.prepared[i].fd \notin DOMAIN prep.st.fds
          /\ prep.argv[i] = ToString(prep.st.prepared[i].fd)

(***************************************************************************)
(* Properties of environments and built voids (BuilderSpec)                *)
(***************************************************************************)
\* the void has the target binary bind-mounted at /entrypoint
EntrypointMounted(void) ==
    \E m \in void.mounts : m.dst = "/entrypoint" /\ m.src = canonical_binary

\* C30: each void in which execv("/entrypoint") is attempted has a bind
\* mount whose destination is /entrypoint and whose source is the target
\* binary, whatever host paths the entrypoint's Filesystem capabilities
\* and File args name.
C30_EntrypointAlwaysMounted ==
    builder.pc = "exec" => EntrypointMounted(builder.void)

\* the read end of the channel that triggers the entrypoint being handled
TriggerReadEnd ==
    IF builder.spec[builder.entry].trigger.type = "Pipe"
    THEN [fd |-> builder.fabric.pipes["x"].read, obj |-> File("pipe", "x", "read")]
    ELSE [fd |-> builder.fabric.sockets["x"].read, obj |-> File("socket", "x", "read")]

\* what a supervisor void holds whatever the entrypoint's environment is
SupervisorFds(void) ==
    /\ TriggerReadEnd.fd \in DOMAIN void.fds
    /\ void.fds[TriggerReadEnd.fd].obj = TriggerReadEnd.obj
    /\ void.fds[1].obj = StdFile(1)
    /\ void.fds[2].obj = StdFile(2)
    /\ void.fds[0].obj = DevNull

FreshProc(void) == "/proc" \in DOMAIN void.ns /\ void.ns["/proc"] = "procfs"

\* C24: the supervisor void of a Pipe- or FileSocket-triggered entrypoint
\* retains the trigger's read end, keeps fds 1 and 2 but not fd 0, has the
\* canonicalised binary bind-mounted at /entrypoint and a fresh procfs at
\* /proc, whatever capabilities the entrypoint's environment holds.
C24_SupervisorVoid ==
    builder.pc = "serving" =>
        /\ SupervisorFds(builder.void)
        /\ FreshProc(builder.void)
        /\ EntrypointMounted(builder.void)

\* what holds in every supervisor void
SupervisorFdsAndProc ==
    builder.pc = "serving" => SupervisorFds(builder.void) /\ FreshProc(builder.void)

\* the voiding sequence of the void being built has completed
Voided == builder.pc \in {"voided", "stopped", "exec", "serving"}

\* the names the capabilities of one type give in the entrypoint's environment
Configured(type) ==
    {e.name : e \in {c \in builder.spec[builder.entry].environment : c.type = type}}

\* prepare_env ran on the builder of this void (not on a supervisor's)
EnvApplied == builder.kind \in {"startup", "triggered"}

\* C26: after voiding, the hostname is the name given by a Hostname
\* capability, or "void" when the builder was given none, the domain name is
\* the name given by a DomainName capability, or "(none)" when the builder
\* was given none, and the host's own names are never left in place.
C26_UtsNames ==
    Voided =>
        /\ builder.void.hostname \in
              (IF EnvApplied /\ Configured("Hostname") # {}
               THEN Configured("Hostname") ELSE {"void"})
        /\ builder.void.domain_name \in
              (IF EnvApplied /\ Configured("DomainName") # {}
               THEN Configured("DomainName") ELSE {"(none)"})
        /\ builder.void.hostname # HostNames.hostname
        /\ builder.void.domain_name # HostNames.domain_name

C26_Witness ==
    /\ builder.pc = "voided"
    /\ builder.kind = "triggered"
    /\ Configured("Hostname") = {"web"}
    /\ builder.void.hostname = "web"
    /\ builder.void.domain_name = "(none)"

\* the capabilities the options of run() ask to forward
Forwarded ==
    (IF builder.stdout THEN {Env("Stdout", "", "", "")} ELSE {})
    \cup (IF builder.stderr THEN {Env("Stderr", "", "", "")} ELSE {})

\* C27: with the stdout (resp. stderr) option set, run adds the Stdout
\* (resp. Stderr) capability to the environment of every entrypoint of the
\* loaded specification and changes nothing else; with both options unset
\* the specification is the loaded one.
C27_ForwardingFrame ==
    builder.pc # "loaded" =>
        /\ DOMAIN builder.spec = DOMAIN builder.loaded
        /\ \A n \in DOMAIN builder.loaded :
              /\ builder.spec[n].trigger = builder.loaded[n].trigger
              /\ builder.spec[n].args = builder.loaded[n].args
              /\ builder.spec[n].environment =
                    builder.loaded[n].environment \cup Forwarded
        /\ (~builder.stdout /\ ~builder.stderr) => builder.spec = builder.loaded

C27_Witness ==
    /\ builder.pc = "forwarded"
    /\ builder.stdout
    /\ ~builder.stderr
    /\ Env("Hostname", "", "", "web") \in builder.loaded["printer"].environment
    /\ builder.spec["printer"].environment =
          builder.loaded["printer"].environment \cup {Env("Stdout", "", "", "")}
    /\ builder.spec["main"].environment = {Env("Stdout", "", "", "")}

\* C28: with debug set, every process about to exec an entrypoint, Startup
\* or triggered, has sent itself exactly one SIGSTOP once its voiding
\* sequence completed and before it calls execv; with debug unset no
\* SIGSTOP is sent.  A supervisor never sends one.
C28_StopBeforeExec ==
    /\ builder.pc = "exec" => builder.stops = (IF builder.debug THEN 1 ELSE 0)
    /\ builder.pc = "stopped" =>
          /\ builder.debug
          /\ builder.stops = 1
          /\ EnvApplied
          /\ builder.void # NoVoid
    /\ builder.pc \notin {"stopped", "exec"} => builder.stops = 0
    /\ ~builder.debug => builder.stops = 0

C28_Witness ==
    /\ builder.pc = "exec"
    /\ builder.kind = "triggered"
    /\ builder.debug
    /\ builder.stops = 1

(***************************************************************************)
(* Properties of Spawner::spawn as a whole (Spec)                          *)
(***************************************************************************)
\* Spawner::spawn returned Ok in the orchestrator
SpawnReturnedOk == pc \in {"spawned", "after_spawn"}

\* the orchestrator cloned a void of the kind the i-th entrypoint calls for
VoidClonedFor(i) ==
    \E p \in DOMAIN procs :
        /\ procs[p].parent = 0
        /\ procs[p].entry = i
        /\ procs[p].kind = (IF spec[i].trigger.type = "Startup" THEN "entry"
                                                                ELSE "supervisor")

\* C29: when Spawner::spawn returns Ok a void has been cloned for every
\* entrypoint of the specification, the entrypoint's own void for a Startup
\* trigger and a supervisor void for a Pipe or FileSocket trigger.
C29_AllVoidsCloned ==
    SpawnReturnedOk => \A i \in 1..Len(spec) : VoidClonedFor(i)

C29_Witness ==
    /\ pc = "spawned"
    /\ \E i, j \in 1..Len(spec) :
          /\ spec[i].trigger.type = "Startup"
          /\ spec[j].trigger.type = "Pipe"
          /\ VoidClonedFor(i)
          /\ VoidClonedFor(j)

(***************************************************************************)
(* Properties of the trigger payload (ArgsSpec)                            *)
(***************************************************************************)
\* the void was triggered by a record on a pipe and its args open with a
\* Trigger arg, so argv[0] is the Trigger argument
PipeTriggerFirst ==
    /\ ArgvBuilt
    /\ prep.trigger.type = "Pipe"
    /\ Len(prep.args) > 0
    /\ prep.args[1] = ArgTrigger

\* C31: the Trigger argument given to the spawned child is byte-for-byte
\* the record that was written to the trigger pipe, whatever its length.
C31_TriggerArgIsRecord ==
    PipeTriggerFirst => prep.argv[1] = prep.written

\* what does hold: the Trigger argument is the first BUFFER_SIZE bytes
TriggerArgIsPrefix ==
    PipeTriggerFirst =>
        /\ prep.argv[1] = SubSeq(prep.written, 1, Min(Len(prep.written), BUFFER_SIZE))
        /\ Len(prep.written) <= BUFFER_SIZE => prep.argv[1] = prep.written

(***************************************************************************)
(* Properties of mount-namespace voiding (MountSpec)                       *)
(***************************************************************************)
RECURSIVE Times(_, _)
Times(c, n) == IF n = 0 THEN <<>> ELSE <<c>> \o Times(c, n - 1)

\* the calls a successful void_mount_namespace makes for a builder
ExpectedCalls(b) ==
    <<"private", "tempdir", "tmpfs", "mkdir", "pivot_root", "chdir">>
    \o Times("bind", Cardinality(MountPairs(b)))
    \o (IF b.remount_proc THEN <<"proc">> ELSE <<>>)
    \o <<"umount", "rmdir">>

\* C32: mount-namespace voiding makes its calls in the order: / private,
\* tmpfs on a fresh temporary directory, pivot_root, chdir to /, every
\* configured bind mount and the default /dev/null with sources under
\* /old_root, proc at /proc only if remount_proc is set, then /old_root is
\* detached and removed; no bind mount is attempted once /old_root is
\* detached, and on success /old_root no longer exists.
C32_MountOrder ==
    mnt.pc # "off" =>
        /\ Len(mnt.log) <= Len(ExpectedCalls(mnt.b))
        /\ mnt.log = SubSeq(ExpectedCalls(mnt.b), 1, Len(mnt.log))
        /\ \A i, j \in 1..Len(mnt.log) :
              mnt.log[i] = "umount" /\ mnt.log[j] = "bind" => j < i
        /\ mnt.proc => mnt.b.remount_proc
        /\ mnt.pc = "ok" =>
              /\ mnt.log = ExpectedCalls(mnt.b)
              /\ mnt.made = void_mount_namespace(mnt.b, mnt.ns)
              /\ mnt.proc = mnt.b.remount_proc
              /\ mnt.old_root = "removed"

C32_Witness ==
    /\ mnt.pc = "ok"
    /\ mnt.proc
    /\ Cardinality(mnt.made) >= 3
    /\ \E m \in mnt.made : m.dst = "/entrypoint"
    /\ mnt.old_root = "removed"

(***************************************************************************)
(* Properties of fork_for_trigger (SupervisorSpec)                         *)
(***************************************************************************)
\* the supervisor exited through its own waitid returning a status
ReapedWorker == sup.pc = "exited" /\ sup.reaped # <<>> /\ sup.reaped[1].kind # "EINTR"

\* C33 as stated: the supervisor never runs the trigger loop, it forks one
\* worker, blocks until a child is reaped and then exits with the worker's
\* exit code, or with -1 if a signal terminated the worker.
C33_AsStated ==
    /\ "supervisor" \notin sup.looped
    /\ sup.pc = "exited" =>
          /\ sup.worker.st \in {"exited", "signaled"}
          /\ Len(sup.reaped) = 1
          /\ sup.code = (IF sup.worker.st = "exited" THEN WaitCode(sup.worker.code)
                                                      ELSE WaitCode(-1))

\* C33 (amended): the supervisor never runs the trigger loop and only the
\* forked worker reads the channel; when fork and waitid succeed, the
\* supervisor exits with the exit code waitid reported for the worker, or
\* with -1 if a signal terminated the worker; when fork or waitid fails
\* it exits with code 1, without a worker or without having reaped it.
C33_SupervisorOnlyWaits ==
    /\ "supervisor" \notin sup.looped
    /\ sup.worker.st = "none" => sup.looped = {}
    /\ ReapedWorker =>
          /\ sup.worker.st \in {"exited", "signaled"}
          /\ Len(sup.reaped) = 1
          /\ sup.code = (IF sup.worker.st = "exited" THEN WaitCode(sup.worker.code)
                                                      ELSE WaitCode(-1))
    /\ (sup.pc = "exited" /\ ~ReapedWorker) =>
          /\ sup.code = 1
          /\ sup.worker.st = "none" \/ sup.reaped = <<WaitStatus("EINTR", 0, 0)>>

C33_Witness ==
    /\ sup.pc = "exited"
    /\ sup.worker.st = "signaled"
    /\ sup.worker.reads = 1
    /\ sup.looped = {"worker"}
    /\ sup.code = WaitCode(-1)
    /\ sup.reaped = <<WaitStatus("Signaled", 1, 0)>>
\* C35: in non-daemon mode run returns Ok(exit code) only after waitid has
\* reported ECHILD: every child of the orchestrator has terminated and has
\* been reaped by then, and the code returned is the one the loop computed.
C35_OkOnlyAfterEchild ==
    (pc = "done" /\ ~daemon /\ result.kind = "Ok") =>
        /\ reaped # <<>>
        /\ reaped[Len(reaped)].kind = "ECHILD"
        /\ \A i \in 1..(Len(reaped) - 1) : reaped[i].kind \in {"Exited", "Signaled"}
        /\ \A c \in DOMAIN children :
              /\ children[c].st = "reaped"
              /\ \E i \in 1..(Len(reaped) - 1) : reaped[i].pid = c
        /\ result = OkCode(exit_code)

C35_Witness ==
    /\ pc = "done" /\ ~daemon /\ result.kind = "Ok"
    /\ Len(children) = MaxChildren
    /\ Len(reaped) = MaxChildren + 1
    /\ \E i, j \in 1..MaxChildren : reaped[i].kind = "Exited" /\ reaped[j].kind = "Signaled"

\* the statuses of the children that exited normally
ExitedCodes == {reaped[i].code : i \in {j \in DOMAIN reaped : reaped[j].kind = "Exited"}}

\* C36: a child terminated by a signal never changes the exit code the reap
\* loop computes: reaping it leaves exit_code as it was, and while every
\* child that exited normally returned 0 the computed code is 0, which is
\* what run returns after ECHILD even when other children were signalled.
C36_SignalKeepsCode ==
    /\ (pc \in {"reap", "done"} /\ ~daemon /\ ExitedCodes \subseteq {0}) => exit_code = 0
    /\ (pc = "done" /\ ~daemon /\ result.kind = "Ok" /\ ExitedCodes \subseteq {0}) =>
          result = OkCode(0)
    /\ (pc \in {"reap", "done"} /\ ~daemon /\ reaped # <<>>
          /\ reaped[Len(reaped)].kind = "Signaled" /\ Len(reaped) > 1
          /\ reaped[Len(reaped) - 1].kind = "Exited" /\ reaped[Len(reaped) - 1].code # 0) =>
          exit_code = reaped[Len(reaped) - 1].code

C36_Witness ==
    /\ pc = "done" /\ ~daemon /\ result = OkCode(0)
    /\ \E i, j \in DOMAIN reaped :
          /\ reaped[i].kind = "Signaled"
          /\ reaped[j].kind = "Exited" /\ reaped[j].code = 0
\* the channel names of one type that a trigger or an argument refers to
ReferencedNames(type) == Range(Reads(spec, type)) \cup Range(Writes(spec, type))

\* C37: once validate accepted the specification, the fabric run builds
\* from the reader references has a PipePair for every pipe name and a
\* SocketPair for every socket name a trigger or an argument refers to, the
\* Spawner keeps them all while it spawns, every supervisor and worker has
\* every socket pair, and no lookup in spawn or in argument preparation
\* panics on a missing name.
C37_FabricHasEveryName ==
    /\ pc \in {"spawn", "spawned"} =>
          /\ DOMAIN spawner_pipes = ReferencedNames("Pipe")
          /\ DOMAIN spawner_sockets = ReferencedNames("FileSocket")
          /\ Range(Reads(spec, "Pipe")) = ReferencedNames("Pipe")
          /\ Range(Reads(spec, "FileSocket")) = ReferencedNames("FileSocket")
    /\ result # Panic
    /\ \A p \in DOMAIN procs :
          /\ procs[p].kind \in {"supervisor", "worker"} =>
                DOMAIN procs[p].sockets = ReferencedNames("FileSocket")
          /\ procs[p].st = "exited" => procs[p].code # closure_code(Panic)

\* a socket was looked up for a trigger by Spawner::spawn and for an
\* argument by the argument preparer of a worker
C37_Witness ==
    /\ pc = "spawned"
    /\ result = Ok
    /\ ReferencedNames("FileSocket") # {}
    /\ \E p \in DOMAIN procs : procs[p].kind = "supervisor"
    /\ \E w \in DOMAIN procs :
          /\ procs[w].kind = "entry"
          /\ procs[w].parent # 0
          /\ \E i \in DOMAIN procs[w].prepared : procs[w].prepared[i].type = "FileSocket"
\* the voids Spawner::spawn cloned
TopLevel(ps) == {p \in DOMAIN ps : ps[p].parent = 0}

\* C38: when a step of Spawner::spawn fails for an entrypoint, spawn
\* returns that error at once and run returns it: the failing step clones
\* nothing and leaves every process as it was, and from then on no
\* entrypoint is spawned, no void of an earlier entrypoint is killed or
\* reaped by the orchestrator, and run never enters the reap loop.
C38_SpawnErrorReturned ==
    [][/\ (pc = "spawn" /\ result' # result) =>
             /\ result'.kind \notin {"Ok"}
             /\ pc' = "done"
             /\ procs' = procs
             /\ next_entry' = next_entry
       /\ (pc = "done" /\ result.kind = "Err") =>
             /\ pc' = "done" /\ result' = result /\ next_entry' = next_entry
             /\ TopLevel(procs') = TopLevel(procs)
             /\ Cardinality(TopLevel(procs)) = next_entry - 1
             /\ reaped' = <<>>]_vars

\* clone3 failed for the second entrypoint while the void of the first one
\* runs on
C38_Witness ==
    /\ pc = "done"
    /\ result = Err("clone3")
    /\ next_entry = 2
    /\ \E p \in TopLevel(procs) : procs[p].st = "exec" /\ procs[p].argv # <<>>
\* C39: every step that leaves a trigger worker in its loop (a record read,
\* a void cloned for a record or for a datagram, a datagram without
\* descriptors) leaves the worker's descriptor table as it was: what was
\* opened, duplicated or received for the void is closed in the worker
\* once the void is cloned.
C39_WorkerFdsUnchanged ==
    [][\A w \in DOMAIN procs :
          (/\ procs[w].kind = "worker"
           /\ procs[w].st \in {"loop", "triggered"}
           /\ procs'[w].st \in {"loop", "triggered"}) => procs'[w].fds = procs[w].fds]_vars

\* a worker back at the top of its loop after it cloned a void that was
\* given received descriptors and a descriptor prepared for an argument
C39_Witness ==
    \E w \in DOMAIN procs :
        /\ procs[w].kind = "worker"
        /\ procs[w].st = "loop"
        /\ \E v \in DOMAIN procs :
              /\ procs[v].parent = w
              /\ procs[v].payload.fds # <<>>
              /\ PreparedFds(procs[v].prepared) # {}
              /\ (PreparedFds(procs[v].prepared) \cup Range(procs[v].payload.fds))
                    \cap DOMAIN procs[w].fds = {}
              /\ DOMAIN procs[w].fds = DOMAIN procs[procs[w].parent].fds

\* the host a request names: the bytes of req.host before the first nul
RECURSIVE HostOf(_)
HostOf(bytes) ==
    IF bytes = <<>> \/ Head(bytes) = NUL THEN <<>> ELSE <<Head(bytes)>> \o HostOf(Tail(bytes))

\* every field the rule specifies equals the request's value
RuleMatches(each, req) ==
    /\ each.kind = req.kind
    /\ each.family = <<>> \/ each.family[1] = req.family
    /\ each.port = <<>> \/ each.port[1] = req.port
    /\ each.host = <<>> \/ each.host[1] = HostOf(req.host)

\* what the permission check returns for the request being handled
Validated ==
    IF rpc.req.kind = "OpenTcpSocket" THEN validate_open_tcp_socket(rpc.permitted_rpcs, rpc.req)
    ELSE validate_open_udp_socket(rpc.permitted_rpcs, rpc.req)

\* C40: a request to open a TCP (UDP) socket is permitted iff the permitted
\* list has a rule of the same kind whose specified fields (family, port,
\* host) equal the request's, None matching anything, and a request that is
\* not permitted is answered with OperationNotPermitted and no socket is
\* opened.
C40_PermittedIffRuleMatches ==
    [][(rpc.pc = "handle_rpc" /\ rpc'.pc = "recv") =>
          LET matches == \E i \in DOMAIN rpc.permitted_rpcs :
                             RuleMatches(rpc.permitted_rpcs[i], rpc.req)
          IN  /\ (Validated = OkBool(TRUE)) <=> matches
              /\ ~matches => rpc'.resp = RpcError("OperationNotPermitted")]_vars

\* no process is running an entrypoint's binary
NoneExec == \A p \in DOMAIN procs : procs[p].st # "exec"

\* process q holds the write end of pipe n although it is not the void of a
\* startup entrypoint with the argument Pipe(Tx(n))
StrayWriter(q, n) ==
    /\ HeldBy(File("pipe", n, "write"), procs[q].fds)
    /\ procs[q].st # "cloned"
    /\ ~(/\ procs[q].kind = "entry"
         /\ procs[q].parent = 0
         /\ [type |-> "Pipe", end |-> "Tx", name |-> n] \in Range(spec[procs[q].entry].args))

\* once the Spawner is dropped the orchestrator holds no end of any pipe,
\* and no voided process but the designated writer holds a write end
WriteEndsOwned ==
    /\ pc \in {"after_spawn", "reap", "done"} =>
          \A f \in DOMAIN fds : fds[f].obj.kind # "pipe"
    /\ \A q \in DOMAIN procs, n \in ChannelNames : ~StrayWriter(q, n)

\* run has returned and every supervisor and worker has exited
AllEnded(reasons) ==
    /\ pc = "done"
    /\ \A p \in DOMAIN procs :
          /\ procs[p].kind \in {"supervisor", "worker"} => procs[p].st = "exited"
          /\ procs[p].kind = "worker" => procs[p].reason \in reasons

\* C34 as stated: if every exec'd entrypoint eventually exits, then every
\* worker eventually reads EOF, every supervisor exits and run returns.
C34_AsStated == <>[]NoneExec => <>[]AllEnded({"eof"})

\* C34: no process other than a pipe's designated writer keeps its write
\* end open, and if every exec'd entrypoint eventually exits then every
\* worker eventually leaves its loop (at EOF, on an interrupted read, or
\* with the error of a void it could not prepare), every supervisor exits
\* and run returns.
C34_EveryoneEnds ==
    /\ []WriteEndsOwned
    /\ <>[]NoneExec => <>[]AllEnded({"eof", "eintr", "error"})

\* a worker that cloned a void for a record has read EOF after the writer
\* exited, its supervisor has exited and run has returned Ok
C34_Witness ==
    /\ pc = "done"
    /\ result.kind = "Ok"
    /\ Len(reaped) = 3
    /\ \E w \in DOMAIN procs :
          /\ procs[w].kind = "worker"
          /\ procs[w].reason = "eof"
          /\ procs[procs[w].parent].st = "exited"
          /\ \E v \in DOMAIN procs : procs[v].parent = w /\ procs[v].st = "exited"
====
